---- MODULE Spec2Model ----
(***************************************************************************)
(* Three parts of the node.  The JIT program cache of core/vm/program.go:   *)
(* the LRU store of programs, the status word of a Program, the one-pass   *)
(* decoder CompileProgram, validDest and the WaitCompile helper goroutine. *)
(* The gas meter calculateGasAndSize of the same file.  The binary Merkle  *)
(* tree of swarm/storage/binarymerkle.go: Build, Validate, InclusionProof  *)
(* and CheckProof.                                                         *)
(*                                                                         *)
(* A *Program is an index into heap; Go's nil is the index 0.  Go slices   *)
(* and byte strings are 0-based, TLA+ sequences 1-based: code[pc] in the   *)
(* source is code[pc + 1] here, instruction index i is instructions[i+1].  *)
(* A uint64 or *big.Int of the gas meter is a sequence of 16-bit limbs,    *)
(* least significant first.                                                *)
(***************************************************************************)
EXTENDS Integers, Sequences, FiniteSets, TLC

\* ------------------------------------------------------------------ bounds
MaxCodeLen == 3      \* longest code string the decoder is run on
MaxProgs == 3        \* Program objects allocated in one behaviour
MaxRuns == 2         \* decode loops started on one Program
MaxCap == 2          \* largest size handed to SetJITCacheSize
MaxConcProgs == 2    \* Program objects allocated while threads interleave
MaxMemWords == 2     \* words of memory already in use when the gas meter runs
MaxLeaves == 4       \* longest list of blocks handed to Build
MaxHeight == 66      \* values of height the loop of GetHeight is followed to

\* ------------------------------------------------------- program constants
progUnknown == 0
progCompile == 1
progReady == 2
progError == 3
defaultJitMaxCache == 1024

\* opcode bytes used by the decoder's case ranges
STOP == 0
PC == 88
JUMPDEST == 91
PUSH1 == 96
PUSH32 == 127
DUP1 == 128
DUP16 == 143
SWAP1 == 144
SWAP16 == 159
LOG0 == 160
LOG4 == 164
RETURN == 243
SUICIDE == 255

\* Opcodes of the switch in CompileProgram that carry no immediate, with the
\* instrFn the case passes to addInstr.
PlainOps ==
  { <<0, "opStop">>, <<1, "opAdd">>, <<2, "opMul">>, <<3, "opSub">>,
    <<4, "opDiv">>, <<5, "opSdiv">>, <<6, "opMod">>, <<7, "opSmod">>,
    <<8, "opAddmod">>, <<9, "opMulmod">>, <<10, "opExp">>,
    <<11, "opSignExtend">>,
    <<16, "opLt">>, <<17, "opGt">>, <<18, "opSlt">>, <<19, "opSgt">>,
    <<20, "opEq">>, <<21, "opIszero">>, <<22, "opAnd">>, <<23, "opOr">>,
    <<24, "opXor">>, <<25, "opNot">>, <<26, "opByte">>,
    <<32, "opSha3">>,
    <<48, "opAddress">>, <<49, "opBalance">>, <<50, "opOrigin">>,
    <<51, "opCaller">>, <<52, "opCallValue">>, <<53, "opCalldataLoad">>,
    <<54, "opCalldataSize">>, <<55, "opCalldataCopy">>, <<56, "opCodeSize">>,
    <<57, "opCodeCopy">>, <<58, "opGasprice">>, <<59, "opExtCodeSize">>,
    <<60, "opExtCodeCopy">>,
    <<64, "opBlockhash">>, <<65, "opCoinbase">>, <<66, "opTimestamp">>,
    <<67, "opNumber">>, <<68, "opDifficulty">>, <<69, "opGasLimit">>,
    <<80, "opPop">>, <<81, "opMload">>, <<82, "opMstore">>,
    <<83, "opMstore8">>, <<84, "opSload">>, <<85, "opSstore">>,
    <<86, "opJump">>, <<87, "opJumpi">>, <<89, "opMsize">>, <<90, "opGas">>,
    <<240, "opCreate">>, <<241, "opCall">>, <<242, "opCallCode">>,
    <<243, "opReturn">>, <<244, "opDelegateCall">>, <<255, "opSuicide">> }

NilFn == "nil"       \* the nil instrFn of the default case
NilData == -1        \* the nil *big.Int

\* ---------------------------------------------------------------- helpers
Min(a, b) == IF a < b THEN a ELSE b

Range(s) == { s[i] : i \in 1..Len(s) }

RECURSIVE Zeros(_)
Zeros(n) == IF n <= 0 THEN <<>> ELSE <<0>> \o Zeros(n - 1)

\* common.RightPadBytes(slice, l): the slice followed by zero bytes up to l.
RightPadBytes(slice, l) ==
  IF l <= Len(slice) THEN slice ELSE slice \o Zeros(l - Len(slice))

\* getData(data, start, size): the size bytes of data from start on, the
\* part past the end of data filled with zero bytes on the right.
getData(data, start, size) ==
  LET s == Min(start, Len(data))
      e == Min(s + size, Len(data))
  IN RightPadBytes(SubSeq(data, s + 1, e), size)

\* common.Bytes2Big: the big-endian value of a byte string.
RECURSIVE Bytes2Big(_)
Bytes2Big(b) ==
  IF Len(b) = 0 THEN 0
  ELSE 256 * Bytes2Big(SubSeq(b, 1, Len(b) - 1)) + b[Len(b)]

\* crypto.Keccak256Hash: a digest that is equal exactly for equal code.
Keccak256Hash(code) == <<"keccak256", code>>

IsPush(op) == op >= PUSH1 /\ op <= PUSH32
IsDup(op) == op >= DUP1 /\ op <= DUP16
IsSwap(op) == op >= SWAP1 /\ op <= SWAP16
IsLog(op) == op >= LOG0 /\ op <= LOG4
IsPlain(op) == \E e \in PlainOps : e[1] = op
plainFn(op) == (CHOOSE e \in PlainOps : e[1] = op)[2]

\* ----------------------------------------------------------------- state
VARIABLES
  programs,   \* the lru.Cache: [size, items], items[1] the most recent entry
  heap,       \* the Program objects allocated so far
  tpc,        \* per thread: where it stands in CompileProgram
  tprog,      \* per thread: the *Program it compiles (0: none)
  tlpc,       \* per thread: the loop variable pc of CompileProgram
  wpc,        \* the WaitCompile goroutine's position
  wid,        \* the id WaitCompile was called with
  wval,       \* the operand the goroutine evaluated for its send
  ch,         \* the channel: [recvd: values received, closed]
  rcv,        \* WaitCompile's caller: "waiting" on the channel or "gone"
  vd,         \* the last validDest call: [prog, dest, ret]
  last,       \* history: the last store call, [op, id, ret]
  useOrder,   \* history: ids in order of their last use, most recent first
  insRun,     \* history: ids of the NewProgram calls since the last lookup
  evicted,    \* history: the ids the last store call removed from the cache
  runs,       \* history: per Program, the decode loops started on it
  gcall,      \* the gas meter's call: [gasTable, env, contract, instr, memLen]
  gstatedb,   \* the world state: [balance, storage, suicided, refund]
  gstack,     \* the *Stack handed to the gas meter, its top last
  gret,       \* what calculateGasAndSize returned: [size, gas, err]
  hashFunc,   \* the package-level hasher of binarymerkle.go
  bt,         \* the BTree of the last Build: [count, root, rootHash]
  bdata,      \* history: the blocks the last Build was called with
  bhasher,    \* history: the hasher in force during the last Build
  bout,       \* history: how the last Build ended, "none" before any
  verr,       \* the last Validate on bt: [h, err]
  prf,        \* the last InclusionProof on bt: [index, b, panic]
  chk,        \* the last CheckProof: [h, proof, index, count, ret]
  rc,         \* per concurrent caller of the tree: [pc, kind, h, label, root, used, ret]
  rwriter,    \* history: the caller that wrote hashFunc last (0: none yet)
  gh          \* GetHeight by steps: [pc, count, height, ret]

vars == <<programs, heap, tpc, tprog, tlpc, wpc, wid, wval, ch, rcv, vd,
          last,
          useOrder, insRun, evicted, runs, gcall, gstatedb, gstack,
          gret, hashFunc, bt, bdata, bhasher, bout, verr, prf, chk,
          rc, rwriter, gh>>

Threads == {1, 2}


\* The byte strings CompileProgram is run on: every string over DecodeBytes
\* up to MaxCodeLen for the decoder, a few short ones for the store and the
\* threads.  12 is a byte no case of the switch names.
DecodeBytes == {STOP, 12, PC, JUMPDEST, PUSH1, PUSH1 + 1, DUP1 + 1, SWAP1, LOG0 + 2}
AllCodes == UNION { [1..n -> DecodeBytes] : n \in 0..MaxCodeLen }
StoreCodes == { <<>>, <<STOP>>, <<JUMPDEST>> }
ConcCodes == { <<JUMPDEST, STOP>> }

\* ------------------------------------------------- big.Int and uint64 values
\* A *big.Int is a little-endian sequence of five 16-bit limbs (80 bits), a
\* uint64 one of four limbs, so that values above 2^64 - 1 and the truncation
\* done by Uint64() are represented exactly.
LimbBase == 256 * 256
LimbMax == LimbBase - 1
bigMaxUint64 == <<LimbMax, LimbMax, LimbMax, LimbMax, 0>>

\* a.Cmp(b): -1, 0 or 1
RECURSIVE CmpFrom(_, _, _)
CmpFrom(a, b, i) ==
  IF i = 0 THEN 0
  ELSE IF a[i] > b[i] THEN 1
  ELSE IF a[i] < b[i] THEN -1
  ELSE CmpFrom(a, b, i - 1)

BigCmp(a, b) == CmpFrom(a, b, 5)

\* x.Uint64(): the low 64 bits of x
BigUint64(x) == SubSeq(x, 1, 4)

\* the uint64 with the value of the (small) natural n
Uint64Of(n) == <<n % LimbBase, (n \div LimbBase) % LimbBase, 0, 0>>

DestInputs ==
  { <<a, b, b, b, d>> : a \in (0..MaxCodeLen) \cup {LimbMax}, b \in {0, LimbMax},
                        d \in {0, 1} }

\* ----------------------------------------------- arithmetic of the gas meter
\* The gas meter computes on uint64 and *big.Int values near 2^64.  There a
\* natural number is the little-endian sequence of its 16-bit limbs without
\* leading zero limbs (zero is <<>>), and the operators below are the exact
\* operations on naturals.
Max(a, b) == IF a > b THEN a ELSE b

RECURSIVE NatTrim(_)
NatTrim(a) ==
  IF a = <<>> THEN <<>>
  ELSE IF a[Len(a)] = 0 THEN NatTrim(SubSeq(a, 1, Len(a) - 1))
  ELSE a

RECURSIVE NatOf(_)
NatOf(n) == IF n = 0 THEN <<>> ELSE <<n % LimbBase>> \o NatOf(n \div LimbBase)

NatLimb(a, i) == IF i <= Len(a) THEN a[i] ELSE 0

NatCmp(a, b) ==
  IF Len(a) < Len(b) THEN -1
  ELSE IF Len(a) > Len(b) THEN 1
  ELSE CmpFrom(a, b, Len(a))

NatLeq(a, b) == NatCmp(a, b) <= 0

RECURSIVE NatAddFrom(_, _, _, _)
NatAddFrom(a, b, i, carry) ==
  IF i > Max(Len(a), Len(b))
  THEN IF carry = 0 THEN <<>> ELSE <<carry>>
  ELSE LET sum == NatLimb(a, i) + NatLimb(b, i) + carry
       IN <<sum % LimbBase>> \o NatAddFrom(a, b, i + 1, sum \div LimbBase)

NatAdd(a, b) == NatAddFrom(a, b, 1, 0)

\* a - b for a >= b
RECURSIVE NatSubFrom(_, _, _, _)
NatSubFrom(a, b, i, borrow) ==
  IF i > Len(a) THEN <<>>
  ELSE LET d == a[i] - NatLimb(b, i) - borrow
       IN IF d < 0
          THEN <<d + LimbBase>> \o NatSubFrom(a, b, i + 1, 1)
          ELSE <<d>> \o NatSubFrom(a, b, i + 1, 0)

NatSub(a, b) == NatTrim(NatSubFrom(a, b, 1, 0))

\* a * c for a factor c below 2^15
RECURSIVE NatMulSmallFrom(_, _, _, _)
NatMulSmallFrom(a, c, i, carry) ==
  IF i > Len(a)
  THEN IF carry = 0 THEN <<>> ELSE <<carry>>
  ELSE LET prod == a[i] * c + carry
       IN <<prod % LimbBase>> \o NatMulSmallFrom(a, c, i + 1, prod \div LimbBase)

NatMulSmall(a, c) == NatTrim(NatMulSmallFrom(a, c, 1, 0))

\* a * limb for a limb below 2^16, by its two bytes
NatMulLimb(a, limb) ==
  NatAdd(NatMulSmall(NatMulSmall(a, limb \div 256), 256), NatMulSmall(a, limb % 256))

RECURSIVE NatMulFrom(_, _, _)
NatMulFrom(a, b, i) ==
  IF i > Len(b) THEN <<>>
  ELSE NatAdd(NatMulLimb(a, b[i]),
              LET rest == NatMulFrom(a, b, i + 1)
              IN IF rest = <<>> THEN <<>> ELSE <<0>> \o rest)

NatMul(a, b) == NatTrim(NatMulFrom(a, b, 1))

\* floor(a / c) for a divisor c of at most 2^15: the quotient's limbs from the
\* top limb i down, rem the remainder carried into limb i
RECURSIVE NatDivSmallFrom(_, _, _, _)
NatDivSmallFrom(a, c, i, rem) ==
  IF i = 0 THEN <<>>
  ELSE LET cur == rem * LimbBase + a[i]
       IN NatDivSmallFrom(a, c, i - 1, cur % c) \o <<cur \div c>>

NatDivSmall(a, c) == NatTrim(NatDivSmallFrom(a, c, Len(a), 0))

NatMin(a, b) == IF NatLeq(a, b) THEN a ELSE b
NatMax(a, b) == IF NatLeq(a, b) THEN b ELSE a

\* math.MaxUint64 and 2^64
maxUint64 == <<LimbMax, LimbMax, LimbMax, LimbMax>>
Pow2_64 == <<0, 0, 0, 0, 1>>

\* The uint64 a natural is truncated to: big.Int.Uint64() and the wrap-around
\* of Go's uint64 +, - and *.
Wrap64(a) == NatTrim(SubSeq(a, 1, Min(4, Len(a))))
U64Add(a, b) == Wrap64(NatAdd(a, b))
U64Sub(a, b) == IF NatLeq(b, a) THEN NatSub(a, b) ELSE NatSub(NatAdd(a, Pow2_64), b)
U64Mul(a, b) == Wrap64(NatMul(a, b))

\* x.BitLen() > 64 and len(x.Bytes()) of a *big.Int
BitLenOver64(x) == Len(x) > 4
ByteLen(x) ==
  IF x = <<>> THEN 0 ELSE 2 * (Len(x) - 1) + (IF x[Len(x)] >= 256 THEN 2 ELSE 1)

\* ------------------------------------------------ helpers of the gas meter
\* Protocol gas prices (package params and the gas64 constants of package vm).
params ==
  [GasFastestStep64 |-> 3, LogGas64 |-> 375, LogTopicGas64 |-> 375,
   LogDataGas64 |-> 8, ExpByteGas64 |-> 10, KeccakWordGas64 |-> 6,
   CopyGas64 |-> 3, SstoreSetGas64 |-> 20000, SstoreClearGas64 |-> 5000,
   SstoreResetGas64 |-> 5000, SstoreRefundGas |-> 15000,
   SuicideRefundGas |-> 24000, CallNewAccountGas64 |-> 25000,
   CallValueTransferGas64 |-> 9000, MemoryGas |-> 3, QuadCoeffDiv |-> 512]

\* The opcodes the meter has a case for, besides those of the decoder.
OpCode ==
  [EXP |-> 10, SHA3 |-> 32, BALANCE |-> 49, CALLDATACOPY |-> 55,
   CODECOPY |-> 57, EXTCODESIZE |-> 59, EXTCODECOPY |-> 60, MLOAD |-> 81,
   MSTORE |-> 82, MSTORE8 |-> 83, SLOAD |-> 84, SSTORE |-> 85,
   CREATE |-> 240, CALL |-> 241, CALLCODE |-> 242, DELEGATECALL |-> 244]

NoError == "nil"
OutOfGasError == "OutOfGasError"
StackUnderflow == "stack underflow"

\* math.IsAddSafe, math.IsMulSafe: the uint64 operation does not overflow.
IsAddSafe(a, b) == NatLeq(NatAdd(a, b), maxUint64)
IsMulSafe(a, b) == NatLeq(NatMul(a, b), maxUint64)

\* toWordSize(size): the number of 32-byte words covering size bytes.
toWordSize(size) == NatDivSmall(NatAdd(size, NatOf(31)), 32)

\* calcMemSize(off, l): off + l rounded up to a word, and the fault reported
\* when an operand or the result is out of the uint64 range.
memSizeOf(rounded) ==
  IF NatLeq(rounded, maxUint64)
  THEN [size |-> rounded, fault |-> FALSE]
  ELSE [size |-> <<>>, fault |-> TRUE]

calcMemSize(off, l) ==
  IF BitLenOver64(off) \/ BitLenOver64(l)
  THEN [size |-> <<>>, fault |-> TRUE]
  ELSE memSizeOf(NatMulSmall(toWordSize(NatAdd(off, l)), 32))

\* The charge for growing a memory of wCur words to wNew words.
quadMemGas(wNew, wCur) ==
  Wrap64(NatAdd(NatMulSmall(NatSub(wNew, wCur), params.MemoryGas),
                NatDivSmall(NatSub(NatMul(wNew, wNew), NatMul(wCur, wCur)),
                            params.QuadCoeffDiv)))

\* calcQuadMemGas(mem, newMemSize): the charge for growing the memory of
\* mem.Len() bytes to newMemSize bytes.
calcQuadMemGas(memLen, newMemSize) ==
  quadMemGas(NatDivSmall(NatMax(memLen, NatMulSmall(toWordSize(newMemSize), 32)), 32),
             NatDivSmall(memLen, 32))

\* The 63/64 rule on the gas left after base.
allButOne64th(callCost, left) == NatMin(callCost, U64Sub(left, NatDivSmall(left, 64)))

\* callGas(gasTable, availableGas, base, callCost)
callGas(gasTable, availableGas, base, callCost) ==
  allButOne64th(callCost, U64Sub(availableGas, base))

\* stack.require(n), stack.peek() and the item n places below the top.
stackRequire(stack, n) == Len(stack) >= n
stackAt(stack, n) == stack[Len(stack) - n + 1]

\* common.BigToAddress, common.BigToHash: the low 160 and 256 bits.
BigToAddress(x) == NatTrim(SubSeq(x, 1, Min(10, Len(x))))
BigToHash(x) == NatTrim(SubSeq(x, 1, Min(16, Len(x))))
EmptyHash(h) == h = <<>>

\* ------------------------------------------------------------ the gas meter
\* The number of stack items an opcode pops (the stackPop of its row in the
\* static table); the rows of DUP, SWAP and LOG require nothing.
stackPop(op) ==
  CASE op \in {SUICIDE, OpCode.EXTCODESIZE, OpCode.BALANCE, OpCode.SLOAD, OpCode.MLOAD} -> 1
    [] op \in {OpCode.EXP, OpCode.SSTORE, OpCode.MSTORE, OpCode.MSTORE8, RETURN, OpCode.SHA3} -> 2
    [] op \in {OpCode.CALLDATACOPY, OpCode.CODECOPY, OpCode.CREATE} -> 3
    [] op = OpCode.EXTCODECOPY -> 4
    [] op = OpCode.DELEGATECALL -> 6
    [] op \in {OpCode.CALL, OpCode.CALLCODE} -> 7
    [] OTHER -> 0

\* env.Db().Empty(address), env.Db().Exist(address) on a world that gives each
\* address one of "absent", "empty", "live".
dbEmpty(db, address) == db[address] # "live"
dbExist(db, address) == db[address] # "absent"

\* A result of the switch: the gas, newMemSize and sizeFault it leaves, or the
\* error it returns, with the stack and the refund counter as it leaves them.
Ok(gas, newMemSize, sizeFault, stack, refund) ==
  [gas |-> gas, newMemSize |-> newMemSize, sizeFault |-> sizeFault,
   err |-> NoError, stack |-> stack, refund |-> refund]

Err(err, stack, refund) ==
  [gas |-> <<>>, newMemSize |-> <<>>, sizeFault |-> FALSE,
   err |-> err, stack |-> stack, refund |-> refund]

\* baseCalc(instr, stack): the base gas, or the error of a short stack.
baseCalc(instr, stack) ==
  IF stackRequire(stack, instr.spop)
  THEN [gas |-> instr.gas, err |-> NoError]
  ELSE [gas |-> <<>>, err |-> StackUnderflow]

\* case SUICIDE: the surcharge of the gas table, then the refund
suicideCharge(gasTable, gas, create) ==
  IF gasTable.CreateBySuicide # <<>>
  THEN IF create
       THEN U64Add(U64Add(gas, gasTable.Suicide), gasTable.CreateBySuicide)
       ELSE U64Add(gas, gasTable.Suicide)
  ELSE gas

suicideRefund_Always(contract, statedb) ==
  statedb.refund + params.SuicideRefundGas

suicideRefund(contract, statedb) ==
  IF contract.address \notin statedb.suicided
  THEN statedb.refund + params.SuicideRefundGas
  ELSE statedb.refund

gasSuicide(gasTable, env, contract, statedb, stack, gas) ==
  Ok(suicideCharge(gasTable, gas,
                   IF env.eip158
                   THEN /\ dbEmpty(env.db, BigToAddress(stackAt(stack, 1)))
                        /\ statedb.balance[contract.address] # <<>>
                   ELSE ~dbExist(env.db, BigToAddress(stackAt(stack, 1)))),
     <<>>, FALSE, stack, suicideRefund(contract, statedb))

\* cases SWAP1..SWAP16 and DUP1..DUP16, requiring n items
gasRequire(n, statedb, stack) ==
  IF stackRequire(stack, n)
  THEN Ok(NatOf(params.GasFastestStep64), <<>>, FALSE, stack, statedb.refund)
  ELSE Err(StackUnderflow, stack, statedb.refund)

\* The checked gas += memGas that ends the cases touching memory.
addMemGas(m, memGas, statedb, stack, gas) ==
  IF ~IsAddSafe(gas, memGas)
  THEN Err(OutOfGasError, stack, statedb.refund)
  ELSE Ok(U64Add(gas, memGas), m.size, m.fault, stack, statedb.refund)

\* The same check with the addition left out.
checkMemGas(m, memGas, statedb, stack, gas) ==
  IF ~IsAddSafe(gas, memGas)
  THEN Err(OutOfGasError, stack, statedb.refund)
  ELSE Ok(gas, m.size, m.fault, stack, statedb.refund)

chargeMemory_HighWater(m, statedb, memLen, stack, gas) ==
  addMemGas([size |-> NatMax(memLen, m.size), fault |-> m.fault],
            calcQuadMemGas(memLen, m.size), statedb, stack, gas)

\* calcQuadMemGas on the size m that calcMemSize gave, and gas += memGas.
chargeMemory(m, statedb, memLen, stack, gas) ==
  addMemGas(m, calcQuadMemGas(memLen, m.size), statedb, stack, gas)

\* The steps shared by the cases that only touch memory (MLOAD, MSTORE,
\* MSTORE8, RETURN, CREATE): calcMemSize on the region, then the charge.
gasMemory(off, l, statedb, memLen, stack, gas) ==
  chargeMemory(calcMemSize(off, l), statedb, memLen, stack, gas)

\* cases LOG0..LOG4: the data charge on msize64, then the memory charge
logData(mStart, mSize, statedb, memLen, stack, gas, gasLogData) ==
  IF ~IsAddSafe(gas, gasLogData)
  THEN Err(OutOfGasError, stack, statedb.refund)
  ELSE gasMemory(mStart, mSize, statedb, memLen, stack, U64Add(gas, gasLogData))

logSized(n, mStart, mSize, statedb, memLen, stack, gas) ==
  IF BitLenOver64(mSize) THEN Err(OutOfGasError, stack, statedb.refund)
  ELSE IF ~IsMulSafe(Wrap64(mSize), NatOf(params.LogDataGas64))
  THEN Err(OutOfGasError, stack, statedb.refund)
  ELSE logData(mStart, mSize, statedb, memLen, stack,
               U64Add(U64Add(gas, NatOf(params.LogGas64)), NatOf(n * params.LogTopicGas64)),
               U64Mul(Wrap64(mSize), NatOf(params.LogDataGas64)))

gasLog(op, statedb, memLen, stack, gas) ==
  IF ~stackRequire(stack, op - LOG0 + 2)
  THEN Err(StackUnderflow, stack, statedb.refund)
  ELSE logSized(op - LOG0, stackAt(stack, 1), stackAt(stack, 2), statedb, memLen,
                stack, gas)

\* case EXP
expCharge(statedb, stack, gas, x) ==
  IF ~IsMulSafe(x, NatOf(params.ExpByteGas64)) THEN Err(OutOfGasError, stack, statedb.refund)
  ELSE IF ~IsAddSafe(gas, U64Mul(x, NatOf(params.ExpByteGas64)))
  THEN Err(OutOfGasError, stack, statedb.refund)
  ELSE Ok(U64Add(gas, U64Mul(x, NatOf(params.ExpByteGas64))), <<>>, FALSE, stack,
          statedb.refund)

gasExp(statedb, stack, gas) ==
  expCharge(statedb, stack, gas, NatOf(ByteLen(stackAt(stack, 2))))

\* case SSTORE on the old value val and the new value y, with the refund of
\* the DELETE scenario left out
sstorePrice_NoRefund(val, y, statedb, stack) ==
  IF EmptyHash(val) /\ ~EmptyHash(BigToHash(y))
  THEN Ok(NatOf(params.SstoreSetGas64), <<>>, FALSE, stack, statedb.refund)
  ELSE IF ~EmptyHash(val) /\ EmptyHash(BigToHash(y))
  THEN Ok(NatOf(params.SstoreClearGas64), <<>>, FALSE, stack, statedb.refund)
  ELSE Ok(NatOf(params.SstoreResetGas64), <<>>, FALSE, stack, statedb.refund)

\* case SSTORE on the old value val and the new value y: the three scenarios
sstorePrice(val, y, statedb, stack) ==
  IF EmptyHash(val) /\ ~EmptyHash(BigToHash(y))
  THEN Ok(NatOf(params.SstoreSetGas64), <<>>, FALSE, stack, statedb.refund)
  ELSE IF ~EmptyHash(val) /\ EmptyHash(BigToHash(y))
  THEN Ok(NatOf(params.SstoreClearGas64), <<>>, FALSE, stack,
          statedb.refund + params.SstoreRefundGas)
  ELSE Ok(NatOf(params.SstoreResetGas64), <<>>, FALSE, stack, statedb.refund)

\* case SSTORE: y below x on the stack, val the state at x
gasSstore(contract, statedb, stack) ==
  IF ~stackRequire(stack, 2) THEN Err(StackUnderflow, stack, statedb.refund)
  ELSE sstorePrice(statedb.storage[<<contract.address, BigToHash(stackAt(stack, 1))>>],
                   stackAt(stack, 2), statedb, stack)

\* The end of the copying cases: the checked gas += wordsGas, then memGas,
\* which EXTCODECOPY checks (line 542) and does not add.
copyCharge(m, wordsGas, memGas, adds, statedb, stack, gas) ==
  IF ~IsAddSafe(gas, wordsGas) THEN Err(OutOfGasError, stack, statedb.refund)
  ELSE IF adds
  THEN addMemGas(m, memGas, statedb, stack, U64Add(gas, wordsGas))
  ELSE checkMemGas(m, memGas, statedb, stack, U64Add(gas, wordsGas))

\* The per-word charge of the copying cases on the low 64 bits of l.
copyWords(m, words, perWord, adds, statedb, memLen, stack, gas) ==
  IF ~IsMulSafe(words, NatOf(perWord)) THEN Err(OutOfGasError, stack, statedb.refund)
  ELSE copyCharge(m, U64Mul(words, NatOf(perWord)), calcQuadMemGas(memLen, m.size),
                  adds, statedb, stack, gas)

\* case SHA3 on the region m of length l
sha3Sized(m, l, statedb, memLen, stack, gas) ==
  IF m.fault THEN Err(OutOfGasError, stack, statedb.refund)
  ELSE IF BitLenOver64(l) THEN Err(OutOfGasError, stack, statedb.refund)
  ELSE copyWords(m, toWordSize(Wrap64(l)), params.KeccakWordGas64, TRUE, statedb, memLen,
                 stack, gas)

gasSha3(statedb, memLen, stack, gas) ==
  sha3Sized(calcMemSize(stackAt(stack, 1), stackAt(stack, 2)), stackAt(stack, 2),
            statedb, memLen, stack, gas)

\* cases CALLDATACOPY, CODECOPY and EXTCODECOPY on the region m of length l
copySized(m, l, adds, statedb, memLen, stack, gas) ==
  IF m.fault THEN Err(OutOfGasError, stack, statedb.refund)
  ELSE copyWords(m, toWordSize(Wrap64(l)), params.CopyGas64, adds, statedb, memLen, stack, gas)

gasCopy(statedb, memLen, stack, gas) ==
  copySized(calcMemSize(stackAt(stack, 1), stackAt(stack, 3)), stackAt(stack, 3),
            TRUE, statedb, memLen, stack, gas)

gasExtcodecopy(statedb, memLen, stack, gas) ==
  copySized(calcMemSize(stackAt(stack, 2), stackAt(stack, 4)), stackAt(stack, 4),
            FALSE, statedb, memLen, stack, gas)

\* The end of the CALL, CALLCODE and DELEGATECALL cases: the top stack item
\* replaced by cg, then the checked gas += cg.
forwardGas(newMemSize, cg, statedb, stack, gas) ==
  IF ~IsAddSafe(gas, cg)
  THEN Err(OutOfGasError, [stack EXCEPT ![Len(stack)] = cg], statedb.refund)
  ELSE Ok(U64Add(gas, cg), newMemSize, FALSE, [stack EXCEPT ![Len(stack)] = cg],
          statedb.refund)

\* The checked gas += memGas, then callGas on the low 64 bits of the
\* requested gas.
forwardCharge(newMemSize, memGas, gasTable, contract, statedb, stack, gas) ==
  IF ~IsAddSafe(gas, memGas) THEN Err(OutOfGasError, stack, statedb.refund)
  ELSE forwardGas(newMemSize,
                  callGas(gasTable, contract.gas64, U64Add(gas, memGas),
                          Wrap64(stackAt(stack, 1))),
                  statedb, stack, U64Add(gas, memGas))

\* The memory charge for the larger of the regions x and y.
gasForward(gasTable, contract, statedb, memLen, stack, gas, x, y) ==
  IF x.fault THEN Err(OutOfGasError, stack, statedb.refund)
  ELSE IF y.fault THEN Err(OutOfGasError, stack, statedb.refund)
  ELSE forwardCharge(NatMax(x.size, y.size),
                     calcQuadMemGas(memLen, NatMax(x.size, y.size)),
                     gasTable, contract, statedb, stack, gas)

\* cases CALL and CALLCODE: the surcharge for transferring value
callTransfer(transfersValue, gasTable, contract, statedb, memLen, stack, gas) ==
  IF transfersValue /\ ~IsAddSafe(gas, NatOf(params.CallValueTransferGas64))
  THEN Err(OutOfGasError, stack, statedb.refund)
  ELSE gasForward(gasTable, contract, statedb, memLen, stack,
                  IF transfersValue
                  THEN U64Add(gas, NatOf(params.CallValueTransferGas64))
                  ELSE gas,
                  calcMemSize(stackAt(stack, 6), stackAt(stack, 7)),
                  calcMemSize(stackAt(stack, 4), stackAt(stack, 5)))

\* cases CALL and CALLCODE: the surcharge for a new account
callNewAccount(newAccount, transfersValue, gasTable, contract, statedb, memLen, stack, gas) ==
  IF newAccount /\ ~IsAddSafe(gas, NatOf(params.CallNewAccountGas64))
  THEN Err(OutOfGasError, stack, statedb.refund)
  ELSE callTransfer(transfersValue, gasTable, contract, statedb, memLen, stack,
                    IF newAccount THEN U64Add(gas, NatOf(params.CallNewAccountGas64)) ELSE gas)

callCreates_OnlyWithValue(op, env, address, transfersValue) ==
  /\ op = OpCode.CALL
  /\ transfersValue
  /\ IF env.eip158 THEN dbEmpty(env.db, address) ELSE ~dbExist(env.db, address)

\* Whether the case CALL adds CallNewAccountGas64 for address.
callCreates(op, env, address, transfersValue) ==
  /\ op = OpCode.CALL
  /\ IF env.eip158
     THEN dbEmpty(env.db, address) /\ transfersValue
     ELSE ~dbExist(env.db, address)

gasCall(op, gasTable, env, contract, statedb, memLen, stack) ==
  callNewAccount(callCreates(op, env, BigToAddress(stackAt(stack, 2)),
                             stackAt(stack, 3) # <<>>),
                 stackAt(stack, 3) # <<>>, gasTable, contract, statedb, memLen,
                 stack, gasTable.Calls)

\* case DELEGATECALL (the float64 maximum of line 632 is exact on sizes
\* below 2^53)
gasDelegatecall(gasTable, contract, statedb, memLen, stack) ==
  gasForward(gasTable, contract, statedb, memLen, stack, gasTable.Calls,
             calcMemSize(stackAt(stack, 5), stackAt(stack, 6)),
             calcMemSize(stackAt(stack, 3), stackAt(stack, 4)))

\* The switch on instr.op, entered with the gas of baseCalc.
gasSwitch(gasTable, env, contract, op, statedb, memLen, stack, gas) ==
  CASE op = SUICIDE -> gasSuicide(gasTable, env, contract, statedb, stack, gas)
    [] op = OpCode.EXTCODESIZE -> Ok(gasTable.ExtcodeSize, <<>>, FALSE, stack, statedb.refund)
    [] op = OpCode.BALANCE -> Ok(gasTable.Balance, <<>>, FALSE, stack, statedb.refund)
    [] op = OpCode.SLOAD -> Ok(gasTable.SLoad, <<>>, FALSE, stack, statedb.refund)
    [] IsSwap(op) -> gasRequire(op - SWAP1 + 2, statedb, stack)
    [] IsDup(op) -> gasRequire(op - DUP1 + 1, statedb, stack)
    [] IsLog(op) -> gasLog(op, statedb, memLen, stack, gas)
    [] op = OpCode.EXP -> gasExp(statedb, stack, gas)
    [] op = OpCode.SSTORE -> gasSstore(contract, statedb, stack)
    [] op \in {OpCode.MLOAD, OpCode.MSTORE, OpCode.MSTORE8, RETURN, OpCode.CREATE} ->
         gasMemory(stackAt(stack, IF op = OpCode.CREATE THEN 2 ELSE 1),
                   CASE op \in {OpCode.MLOAD, OpCode.MSTORE} -> NatOf(32)
                     [] op = OpCode.MSTORE8 -> NatOf(1)
                     [] op = RETURN -> stackAt(stack, 2)
                     [] op = OpCode.CREATE -> stackAt(stack, 3),
                   statedb, memLen, stack, gas)
    [] op = OpCode.SHA3 -> gasSha3(statedb, memLen, stack, gas)
    [] op \in {OpCode.CALLDATACOPY, OpCode.CODECOPY} -> gasCopy(statedb, memLen, stack, gas)
    [] op = OpCode.EXTCODECOPY -> gasExtcodecopy(statedb, memLen, stack, gas)
    [] op \in {OpCode.CALL, OpCode.CALLCODE} ->
         gasCall(op, gasTable, env, contract, statedb, memLen, stack)
    [] op = OpCode.DELEGATECALL -> gasDelegatecall(gasTable, contract, statedb, memLen, stack)
    [] OTHER -> Ok(gas, <<>>, FALSE, stack, statedb.refund)

\* The return after the switch (lines 652-655).
gasReturn(r) ==
  IF r.err # NoError
  THEN [size |-> <<>>, gas |-> <<>>, err |-> r.err, stack |-> r.stack,
        refund |-> r.refund]
  ELSE IF r.sizeFault
  THEN [size |-> <<>>, gas |-> <<>>, err |-> OutOfGasError, stack |-> r.stack,
        refund |-> r.refund]
  ELSE [size |-> U64Mul(toWordSize(r.newMemSize), NatOf(32)), gas |-> r.gas,
        err |-> NoError, stack |-> r.stack, refund |-> r.refund]

gasAfterBase_RefundFirst(base, gasTable, env, contract, instr, statedb, memLen, stack) ==
  IF base.err # NoError
  THEN [size |-> <<>>, gas |-> <<>>, err |-> base.err, stack |-> stack,
        refund |-> IF instr.op = OpCode.SSTORE
                   THEN statedb.refund + params.SstoreRefundGas
                   ELSE statedb.refund]
  ELSE gasReturn(gasSwitch(gasTable, env, contract, instr.op, statedb, memLen, stack,
                           base.gas))

\* The switch and the return, on the result of baseCalc.
gasAfterBase(base, gasTable, env, contract, instr, statedb, memLen, stack) ==
  IF base.err # NoError
  THEN [size |-> <<>>, gas |-> <<>>, err |-> base.err, stack |-> stack,
        refund |-> statedb.refund]
  ELSE gasReturn(gasSwitch(gasTable, env, contract, instr.op, statedb, memLen, stack,
                           base.gas))

\* calculateGasAndSize: the new memory size and the gas of instr, or an
\* error; with them the stack and the refund counter of statedb afterwards.
calculateGasAndSize(gasTable, env, contract, instr, statedb, memLen, stack) ==
  gasAfterBase(baseCalc(instr, stack), gasTable, env, contract, instr, statedb,
               memLen, stack)

\* ------------------------------------------------ inputs of the gas meter
\* The operands found on the stack: small values, the largest uint64 and
\* values of more than 64 bits.
Operands == { <<>>, NatOf(33), NatOf(64), maxUint64, Pow2_64 }
ContractAddr == NatOf(1)
Addrs == { BigToAddress(v) : v \in Operands } \cup { ContractAddr, NatOf(2) }
Keys == { <<>>, NatOf(1) }
Slots == { <<ContractAddr, k>> : k \in Keys }
BaseGases == { NatOf(3), maxUint64 }
MemLens == { NatOf(32 * k) : k \in 0..MaxMemWords }
AccountStates == { "absent", "empty", "live" }

\* params.GasTableHomestead and params.GasTableEIP150
GasTables ==
  { [Suicide |-> <<>>, CreateBySuicide |-> <<>>, ExtcodeSize |-> NatOf(20),
     Balance |-> NatOf(20), SLoad |-> NatOf(50), Calls |-> NatOf(40)],
    [Suicide |-> NatOf(5000), CreateBySuicide |-> NatOf(25000),
     ExtcodeSize |-> NatOf(700), Balance |-> NatOf(400), SLoad |-> NatOf(200),
     Calls |-> NatOf(700)] }

Envs == { [eip158 |-> e, db |-> [a \in Addrs |-> st]] :
            e \in BOOLEAN, st \in AccountStates }

StateDb(balance, storage, suicided, refund) ==
  [balance |-> [a \in Addrs |-> IF a = ContractAddr THEN balance ELSE <<>>],
   storage |-> storage, suicided |-> suicided, refund |-> refund]

DefaultStateDb == StateDb(<<>>, [k \in Slots |-> <<>>], {}, 0)
DefaultEnv == [eip158 |-> TRUE, db |-> [a \in Addrs |-> "live"]]
DefaultGasTable == CHOOSE t \in GasTables : t.Calls = NatOf(700)

\* One call of the meter: its arguments, the world and the stack.
GasInput(op, base, gasTable, env, gas64, memLen, sdb, stk) ==
  [gcall |-> [gasTable |-> gasTable, env |-> env,
              contract |-> [address |-> ContractAddr, gas64 |-> gas64],
              instr |-> [op |-> op, gas |-> base, spop |-> stackPop(op)],
              memLen |-> memLen],
   statedb |-> sdb, stack |-> stk]

SstoreInputs ==
  { GasInput(OpCode.SSTORE, <<>>, DefaultGasTable, DefaultEnv, NatOf(6400), <<>>,
             StateDb(<<>>, storage, {}, refund), stk) :
      storage \in [Slots -> { <<>>, NatOf(7) }],
      refund \in { 0, params.SstoreRefundGas },
      stk \in { <<y, x>> : y \in { <<>>, NatOf(7), Pow2_64 }, x \in Keys }
              \cup { <<>>, << <<>> >> } }

SuicideInputs ==
  { GasInput(SUICIDE, base, gasTable, env, NatOf(6400), <<>>,
             StateDb(balance, [k \in Slots |-> <<>>], suicided, refund),
             << NatOf(2) >>) :
      gasTable \in GasTables, env \in Envs, balance \in { <<>>, NatOf(1) },
      suicided \in { {}, {ContractAddr} }, refund \in { 0, params.SuicideRefundGas },
      base \in { <<>>, NatOf(3) } }

\* The stack of a CALL or CALLCODE, from the bottom: the output region's
\* size and offset, the input region's size and offset, the value, the
\* address and the requested gas; DELEGATECALL has no value.
CallStacks(op) ==
  { IF op = OpCode.DELEGATECALL
    THEN <<out[2], out[1], in[2], in[1], NatOf(2), r>>
    ELSE <<out[2], out[1], in[2], in[1], value, NatOf(2), r>> :
      out \in { << <<>>, <<>> >>, <<NatOf(64), NatOf(32)>>, << <<>>, Pow2_64 >> },
      in \in { << <<>>, <<>> >>, << <<>>, NatOf(33) >> },
      value \in { <<>>, NatOf(1) },
      r \in { NatOf(100), NatOf(100000), maxUint64, NatAdd(Pow2_64, NatOf(5)) } }

CallInputs ==
  { GasInput(op[1], <<>>, gasTable, env, gas64, memLen, DefaultStateDb, op[2]) :
      op \in { <<o, stk>> : o \in {OpCode.CALL}, stk \in CallStacks(OpCode.CALL) }
             \cup { <<o, stk>> : o \in {OpCode.CALLCODE}, stk \in CallStacks(OpCode.CALLCODE) }
             \cup { <<o, stk>> : o \in {OpCode.DELEGATECALL}, stk \in CallStacks(OpCode.DELEGATECALL) },
      gasTable \in GasTables, env \in Envs,
      gas64 \in { NatOf(100), NatOf(6400), maxUint64 }, memLen \in MemLens }

\* A call whose output region ends at 2^39 bytes, by a contract holding 2^59
\* gas, asking for the whole uint64 range: the memory charge exceeds the gas
\* the contract has.
FarCallStack(op) ==
  IF op = OpCode.DELEGATECALL
  THEN <<NatOf(32), NatSub(NatMul(NatOf(1048576), NatOf(524288)), NatOf(32)),
         <<>>, <<>>, NatOf(2), maxUint64>>
  ELSE <<NatOf(32), NatSub(NatMul(NatOf(1048576), NatOf(524288)), NatOf(32)),
         <<>>, <<>>, <<>>, NatOf(2), maxUint64>>

FarCallInputs ==
  { GasInput(op, <<>>, gasTable, DefaultEnv,
             NatMul(NatOf(1073741824), NatOf(536870912)), <<>>, DefaultStateDb,
             FarCallStack(op)) :
      op \in {OpCode.CALL, OpCode.CALLCODE, OpCode.DELEGATECALL},
      gasTable \in GasTables }

CopyInputs ==
  { GasInput(op, base, DefaultGasTable, DefaultEnv, NatOf(6400), memLen,
             DefaultStateDb, <<d, c, b, a>>) :
      op \in { OpCode.SHA3, OpCode.CALLDATACOPY, OpCode.CODECOPY, OpCode.EXTCODECOPY }, base \in BaseGases,
      memLen \in MemLens, a \in Operands, b \in Operands, c \in Operands,
      d \in Operands }

OtherOps ==
  { OpCode.EXTCODESIZE, OpCode.BALANCE, OpCode.SLOAD, SWAP1, SWAP1 + 1, DUP1, DUP1 + 2, LOG0, LOG0 + 1,
    OpCode.EXP, OpCode.MLOAD, OpCode.MSTORE, OpCode.MSTORE8, RETURN, OpCode.CREATE, STOP }

OtherInputs ==
  { GasInput(op, base, gasTable, DefaultEnv, NatOf(6400), memLen, DefaultStateDb, stk) :
      op \in OtherOps, base \in BaseGases, gasTable \in GasTables, memLen \in MemLens,
      stk \in { <<>> } \cup { <<a>> : a \in Operands }
              \cup { <<b, a>> : a \in Operands, b \in Operands }
              \cup { <<c, b, a>> : a \in Operands, b \in Operands, c \in Operands } }

NoReturn == [size |-> <<>>, gas |-> <<>>, err |-> "none"]

\* ------------------------------------------------- the binary Merkle tree
\* swarm/storage/binarymerkle.go.  A []byte is a sequence of atoms and an
\* atom a sequence of integers: <<b>> is the byte b, and the 32 bytes of a
\* digest are one atom that spells out the hasher and the bytes written to
\* it, so two digests are equal exactly when hasher and input are.  A *node
\* is <<label, children[0], children[1]>>, Go's nil the empty tuple.
Keccak256 == 1       \* the hasher sha3.NewKeccak256
Sha256 == 2          \* the hasher sha256.New
Hashers == {Keccak256, Sha256}

RECURSIVE Flat(_)
Flat(s) == IF Len(s) = 0 THEN <<>> ELSE Head(s) \o Flat(Tail(s))

\* h := hashFunc(); h.Reset(); h.Write(...); h.Sum(make([]byte, 0))
Sum(hf, written) == << <<-1, hf>> \o Flat(written) \o <<-2>> >>

\* binary.Write(h, binary.LittleEndian, count): the n low bytes of count
RECURSIVE LittleEndianBytes(_, _)
LittleEndianBytes(count, n) ==
  IF n = 0 THEN <<>>
  ELSE << <<count % 256>> >> \o LittleEndianBytes(count \div 256, n - 1)

LittleEndian(count) == LittleEndianBytes(count, 8)

\* index >> k and index & ^(1 << k)
Shr(index, k) == index \div (2 ^ k)
ClearBit(index, k) == index - (Shr(index, k) % 2) * (2 ^ k)

nil == <<>>
Node(label, c0, c1) == <<label, c0, c1>>
Label(n) == n[1]
Child(n, k) == n[k + 2]
BTree(count, root, hash) == [count |-> count, root |-> root, rootHash |-> hash]
Root(count, base) == [Count |-> count, Base |-> base]

rootHash(hf, count, data) == Sum(hf, data \o LittleEndian(count))

makeHash_LeftOnly(hf, left, right) ==
  Sum(hf, IF left # nil THEN Label(left) ELSE <<>>)

makeHash(hf, left, right) ==
  Sum(hf, IF left # nil
          THEN Label(left) \o (IF right # nil THEN Label(right) ELSE <<>>)
          ELSE <<>>)

RECURSIVE GetHeightFrom(_, _)
GetHeightFrom(count, height) ==
  IF count > 2 ^ height THEN GetHeightFrom(count, height + 1) ELSE height + 1

GetHeight(count) == IF count = 0 THEN 0 ELSE GetHeightFrom(count, 0)

\* buildNode returns <<the node, the data it left over>>
RECURSIVE buildNode(_, _, _)
buildJoin(hf, n0, r1) == <<Node(makeHash(hf, n0, r1[1]), n0, r1[1]), r1[2]>>
buildRight(hf, r0, height) == buildJoin(hf, r0[1], buildNode(hf, r0[2], height - 1))
buildNode(hf, data, height) ==
  IF height = 0 \/ Len(data) = 0 THEN <<nil, data>>
  ELSE IF height = 1 THEN <<Node(data[1], nil, nil), Tail(data)>>
  ELSE buildRight(hf, buildNode(hf, data, height - 1), height)

rootLabel(height, node) == IF height > 0 THEN Label(node) ELSE <<>>

\* Build panics when buildNode leaves data over.
BuildPanics(hf, data) ==
  Len(buildNode(hf, data, GetHeight(Len(data)))[2]) # 0

BuildTree(hf, count, height, node) ==
  BTree(count, node, rootHash(hf, count, rootLabel(height, node)))

Build(hf, data) ==
  BuildTree(hf, Len(data), GetHeight(Len(data)),
            buildNode(hf, data, GetHeight(Len(data)))[1])

\* node.validate returns <<count, height, err>>
ErrSecondOnly == "Invalid Node: Node missing first child, but has second"
ErrHeights == "Invalid Node: height mismatch between children"
ErrLabel == "Invalid Node: Node hash mismatch"
ErrCount == "Incorrect count"
ErrHeight == "Incorrect height"
ErrRootHash == "Incorrect rootHash"

RECURSIVE validate(_, _)
validateLabel(hf, t, count, height) ==
  IF makeHash(hf, Child(t, 0), Child(t, 1)) # Label(t)
  THEN <<0, 0, ErrLabel>>
  ELSE <<count, height + 1, NoError>>
validateRight(hf, t, v0, v1) ==
  IF v1[3] # NoError THEN <<v0[1] + v1[1], v0[2], v1[3]>>
  ELSE IF v1[2] # v0[2] THEN <<v0[1] + v1[1], v0[2], ErrHeights>>
  ELSE validateLabel(hf, t, v0[1] + v1[1], v0[2])
validateLeft(hf, t, v0) ==
  IF v0[3] # NoError THEN v0
  ELSE IF Child(t, 1) # nil
       THEN validateRight(hf, t, v0, validate(hf, Child(t, 1)))
       ELSE validateLabel(hf, t, v0[1], v0[2])
validate(hf, t) ==
  IF t = nil THEN <<0, 0, NoError>>
  ELSE IF Child(t, 0) = nil
       THEN IF Child(t, 1) # nil THEN <<0, 0, ErrSecondOnly>>
            ELSE <<1, 1, NoError>>
  ELSE validateLeft(hf, t, validate(hf, Child(t, 0)))

ValidateRoot(hf, t, v) ==
  IF v[3] # NoError THEN v[3]
  ELSE IF v[1] # t.count THEN ErrCount
  ELSE IF v[2] # GetHeight(v[1]) THEN ErrHeight
  ELSE IF t.rootHash # rootHash(hf, v[1], rootLabel(v[2], t.root))
       THEN ErrRootHash
  ELSE NoError

Validate(hf, t) == ValidateRoot(hf, t, validate(hf, t.root))

\* proveNode returns [b: the proof, panic: whether the call panicked]
Proved(b) == [b |-> b, panic |-> FALSE]
Panicked == [b |-> <<>>, panic |-> TRUE]

RECURSIVE proveNode(_, _, _)
proveSibling(n, otherChildIndex, r) ==
  IF r.panic THEN r
  ELSE IF Child(n, otherChildIndex) # nil
       THEN Proved(Append(r.b, Label(Child(n, otherChildIndex))))
       ELSE r
proveNode(height, n, index) ==
  IF n = nil THEN Panicked
  ELSE IF height = 1
       THEN IF index # 0 THEN Panicked ELSE Proved(<<Label(n)>>)
  ELSE IF Shr(index, height - 2) > 1 THEN Panicked
  ELSE proveSibling(n, (Shr(index, height - 2) + 1) % 2,
                    proveNode(height - 1, Child(n, Shr(index, height - 2)),
                              ClearBit(index, height - 2)))

InclusionProof(t, index) ==
  IF index >= t.count \/ index < 0 THEN Panicked
  ELSE proveNode(GetHeight(t.count), t.root, index)

\* checkNode returns <<the label computed, ok>>
Rejected == << <<>>, FALSE >>
Front(s) == SubSeq(s, 1, Len(s) - 1)

RECURSIVE checkNode(_, _, _, _, _)
checkHash(hf, before, r, after) == <<Sum(hf, before \o r[1] \o after), r[2]>>
checkRight(hf, height, proof, index, count) ==
  checkHash(hf, proof[Len(proof)],
            checkNode(hf, height - 1, Front(proof),
                      ClearBit(index, height - 2),
                      ClearBit(count, height - 2)),
            <<>>)
checkLeft_AlwaysSibling(hf, height, proof, index, count, nextCount) ==
  checkHash(hf, <<>>,
            checkNode(hf, height - 1, Front(proof),
                      ClearBit(index, height - 2), nextCount),
            proof[Len(proof)])
checkLeft(hf, height, proof, index, count, nextCount) ==
  IF count = nextCount
  THEN checkHash(hf, <<>>,
                 checkNode(hf, height - 1, proof,
                           ClearBit(index, height - 2), nextCount),
                 <<>>)
  ELSE checkHash(hf, <<>>,
                 checkNode(hf, height - 1, Front(proof),
                           ClearBit(index, height - 2), nextCount),
                 proof[Len(proof)])
checkNode(hf, height, proof, index, count) ==
  IF Len(proof) = 0 THEN Rejected
  ELSE IF count <= index THEN Rejected
  ELSE IF height = 1
       THEN IF index # 0 \/ Len(proof) # 1 THEN Rejected
            ELSE <<proof[1], TRUE>>
  ELSE IF Shr(index, height - 2) = 1
       THEN checkRight(hf, height, proof, index, count)
       ELSE checkLeft(hf, height, proof, index, count,
                      Min(count, 2 ^ (height - 2)))

checkRoot(hf, r, res) == res[2] /\ r.Base = rootHash(hf, r.Count, res[1])

CheckProof(hf, r, proof, index) ==
  checkRoot(hf, r, checkNode(hf, GetHeight(r.Count), proof, index, r.Count))

\* The blocks, lists of blocks and proofs the tree's calls are run on.
Blocks == { << <<120>> >>, << <<121>> >>, << <<120>>, <<120>> >> }
BlockLists == UNION { [1..n -> Blocks] : n \in 0..MaxLeaves }
RemoveAt(s, k) == SubSeq(s, 1, k - 1) \o SubSeq(s, k + 1, Len(s))
InsertAt(s, k, v) == SubSeq(s, 1, k - 1) \o <<v>> \o SubSeq(s, k, Len(s))
Changed(b) == { [b EXCEPT ![k] = v] : k \in 1..Len(b), v \in Blocks } \ {b}
Removed(b) == { RemoveAt(b, k) : k \in 1..Len(b) }
Added(b) == { InsertAt(b, k, v) : k \in 1..(Len(b) + 1), v \in Blocks }
Alterations(b) == Changed(b) \cup Removed(b) \cup Added(b)
NoValidate == [h |-> 0, err |-> "none"]
NoProof == [index |-> 0, b |-> <<>>, panic |-> TRUE]
NoCheck == [h |-> 0, proof |-> <<>>, index |-> 0, count |-> 0, ret |-> FALSE]

\* ------------------------------------------------------------ the lru.Cache
lruNew(size) == [size |-> size, items |-> <<>>]

lruKeys(c) == { c.items[i].key : i \in 1..Len(c.items) }

lruIndex(c, key) ==
  IF key \in lruKeys(c)
  THEN CHOOSE i \in 1..Len(c.items) : c.items[i].key = key
  ELSE 0

lruWithout(c, i) == SubSeq(c.items, 1, i - 1) \o SubSeq(c.items, i + 1, Len(c.items))

\* Cache.Add: an entry already present is given the value and moved to the
\* front; a new entry is pushed at the front and, when the list is then longer
\* than size, the entry at the back is removed.
lruAdd(c, key, value) ==
  LET i == lruIndex(c, key)
      ent == [key |-> key, value |-> value]
  IN IF i # 0
     THEN [c EXCEPT !.items = <<ent>> \o lruWithout(c, i)]
     ELSE LET pushed == <<ent>> \o c.items
          IN [c EXCEPT !.items = IF Len(pushed) > c.size
                                 THEN SubSeq(pushed, 1, Len(pushed) - 1)
                                 ELSE pushed]

\* Cache.Get: a hit moves the entry to the front.
lruGet(c, key) ==
  LET i == lruIndex(c, key)
  IN IF i # 0
     THEN [cache |-> [c EXCEPT !.items = <<c.items[i]>> \o lruWithout(c, i)],
           value |-> c.items[i].value, ok |-> TRUE]
     ELSE [cache |-> c, value |-> 0, ok |-> FALSE]

\* ------------------------------------------------------- the store's calls
\* Each returns the new value of what it writes and its return value ret.

SetJITCacheSize(size) == lruNew(size)

\* GetProgram with a lookup that leaves the recency order alone.
GetProgram_Peek(c, id) ==
  LET g == lruGet(c, id)
  IN [programs |-> c, ret |-> IF g.ok THEN g.value ELSE 0]

GetProgram(c, id) ==
  LET g == lruGet(c, id)
  IN [programs |-> g.cache, ret |-> IF g.ok THEN g.value ELSE 0]

\* GetProgramStatus through a lookup that leaves the recency order alone.
GetProgramStatus_Peek(c, h, id) ==
  LET g == GetProgram_Peek(c, id)
  IN [programs |-> c,
      ret |-> IF g.ret # 0 THEN h[g.ret].status ELSE progUnknown]

\* The lookup (under the cache's mutex) and the atomic load of the status are
\* one step: the load returns the status at the time of the load, and no step
\* of another thread between the two changes which Program was found.
GetProgramStatus(c, h, id) ==
  LET g == GetProgram(c, id)
  IN [programs |-> g.programs,
      ret |-> IF g.ret # 0 THEN h[g.ret].status ELSE progUnknown]

\* NewProgram that leaves an entry already stored under the id in place.
NewProgram_ContainsOrAdd(c, h, code) ==
  LET program == [Id |-> Keccak256Hash(code),
                  status |-> progUnknown,
                  instructions |-> <<>>,
                  mapping |-> <<>>,
                  destinations |-> {},
                  code |-> code]
  IN [programs |-> IF program.Id \in lruKeys(c)
                   THEN c
                   ELSE lruAdd(c, program.Id, Len(h) + 1),
      heap |-> Append(h, program),
      ret |-> Len(h) + 1]

\* NewProgram that does not store the program.
NewProgram_NoAdd(c, h, code) ==
  LET program == [Id |-> Keccak256Hash(code),
                  status |-> progUnknown,
                  instructions |-> <<>>,
                  mapping |-> <<>>,
                  destinations |-> {},
                  code |-> code]
  IN [programs |-> c,
      heap |-> Append(h, program),
      ret |-> Len(h) + 1]

NewProgram(c, h, code) ==
  LET program == [Id |-> Keccak256Hash(code),
                  status |-> progUnknown,
                  instructions |-> <<>>,
                  mapping |-> <<>>,
                  destinations |-> {},
                  code |-> code]
  IN [programs |-> lruAdd(c, program.Id, Len(h) + 1),
      heap |-> Append(h, program),
      ret |-> Len(h) + 1]

\* ------------------------------------------------------------- the decoder
baseOpOf(op) ==
  IF IsPush(op) THEN PUSH1
  ELSE IF IsDup(op) THEN DUP1
  ELSE op

\* addInstr that maps pc to the length of the array after the append.
addInstr_MapLen(p, op, pc, fn, data) ==
  LET returns == op = RETURN \/ op = SUICIDE \/ op = STOP
      instr == [op |-> op, pc |-> pc, fn |-> fn, data |-> data,
                baseOp |-> baseOpOf(op), returns |-> returns]
      instrs == Append(p.instructions, instr)
  IN [p EXCEPT !.instructions = instrs,
               !.mapping = [k \in DOMAIN p.mapping \cup {pc} |->
                              IF k = pc THEN Len(instrs) ELSE p.mapping[k]]]

\* Program.addInstr.  The instruction keeps baseOp, the key under which the
\* base gas and stack counts are looked up in _baseCheck.
addInstr(p, op, pc, fn, data) ==
  LET returns == op = RETURN \/ op = SUICIDE \/ op = STOP
      instr == [op |-> op, pc |-> pc, fn |-> fn, data |-> data,
                baseOp |-> baseOpOf(op), returns |-> returns]
      instrs == Append(p.instructions, instr)
  IN [p EXCEPT !.instructions = instrs,
               !.mapping = [k \in DOMAIN p.mapping \cup {pc} |->
                              IF k = pc THEN Len(instrs) - 1 ELSE p.mapping[k]]]

\* PUSH_n counted from PUSH1 = 0.
pushSize_FromZero(op) == op - PUSH1

\* The PUSH case's size: the number of immediate bytes of PUSH_n.
pushSize(op) == op - PUSH1 + 1

\* The PUSH case without the pc += size.
pushCase_NoSkip(p, op, pc) ==
  LET size == pushSize(op)
      bytes == getData(p.code, pc + 1, size)
  IN [prog |-> addInstr(p, op, pc, "opPush", Bytes2Big(bytes)),
      pc |-> pc + 1]

\* The PUSH case taking its bytes from pc, the opcode's place.
pushCase_DataFromPc(p, op, pc) ==
  LET size == pushSize(op)
      bytes == getData(p.code, pc, size)
  IN [prog |-> addInstr(p, op, pc, "opPush", Bytes2Big(bytes)),
      pc |-> pc + size + 1]

\* The PUSH case of the switch, with its pc += size and the loop's pc++.
pushCase(p, op, pc) ==
  LET size == pushSize(op)
      bytes == getData(p.code, pc + 1, size)
  IN [prog |-> addInstr(p, op, pc, "opPush", Bytes2Big(bytes)),
      pc |-> pc + size + 1]

\* One iteration with the SWAP case recording op - SWAP1 + 1.
compileInstr_SwapIndex(p, pc) ==
  LET op == p.code[pc + 1]
  IN CASE IsPush(op) -> pushCase(p, op, pc)
       [] IsDup(op) ->
            [prog |-> addInstr(p, op, pc, "opDup", op - DUP1 + 1), pc |-> pc + 1]
       [] IsSwap(op) ->
            [prog |-> addInstr(p, op, pc, "opSwap", op - SWAP1 + 1), pc |-> pc + 1]
       [] IsLog(op) ->
            [prog |-> addInstr(p, op, pc, "opLog", op - LOG0), pc |-> pc + 1]
       [] op = JUMPDEST ->
            [prog |-> [addInstr(p, op, pc, "opJumpdest", NilData)
                         EXCEPT !.destinations = @ \cup {pc}],
             pc |-> pc + 1]
       [] op = PC ->
            [prog |-> addInstr(p, op, pc, "opPc", pc), pc |-> pc + 1]
       [] IsPlain(op) ->
            [prog |-> addInstr(p, op, pc, plainFn(op), NilData), pc |-> pc + 1]
       [] OTHER ->
            [prog |-> addInstr(p, op, pc, NilFn, NilData), pc |-> pc + 1]

\* One iteration of the loop of CompileProgram at pc (the switch and the
\* loop's pc++): the program after it and the next value of pc.
compileInstr(p, pc) ==
  LET op == p.code[pc + 1]
  IN CASE IsPush(op) -> pushCase(p, op, pc)
       [] IsDup(op) ->
            [prog |-> addInstr(p, op, pc, "opDup", op - DUP1 + 1), pc |-> pc + 1]
       [] IsSwap(op) ->
            [prog |-> addInstr(p, op, pc, "opSwap", op - SWAP1 + 2), pc |-> pc + 1]
       [] IsLog(op) ->
            [prog |-> addInstr(p, op, pc, "opLog", op - LOG0), pc |-> pc + 1]
       [] op = JUMPDEST ->
            [prog |-> [addInstr(p, op, pc, "opJumpdest", NilData)
                         EXCEPT !.destinations = @ \cup {pc}],
             pc |-> pc + 1]
       [] op = PC ->
            [prog |-> addInstr(p, op, pc, "opPc", pc), pc |-> pc + 1]
       [] IsPlain(op) ->
            [prog |-> addInstr(p, op, pc, plainFn(op), NilData), pc |-> pc + 1]
       [] OTHER ->
            [prog |-> addInstr(p, op, pc, NilFn, NilData), pc |-> pc + 1]

\* validDest without the 64-bit check.
validDest_NoBound(dests, dest) ==
  \E k \in dests : Uint64Of(k) = BigUint64(dest)

validDest(dests, dest) ==
  IF BigCmp(dest, bigMaxUint64) > 0
  THEN FALSE
  ELSE \E k \in dests : Uint64Of(k) = BigUint64(dest)


\* ---------------------------------------------------------------- history
Touch(order, id) ==
  LET Other(x) == x # id IN <<id>> \o SelectSeq(order, Other)

TrimRun(s) ==
  IF Len(s) > MaxCap + 1 THEN SubSeq(s, Len(s) - MaxCap, Len(s)) ELSE s

\* A store call op on id that leaves the cache c and returns ret.  A use of
\* id is an insertion or a lookup that finds id in the cache.
Record(op, id, c, ret) ==
  /\ programs' = c
  /\ last' = [op |-> op, id |-> id, ret |-> ret]
  /\ useOrder' = IF op = "NewProgram" \/ id \in lruKeys(programs)
                 THEN Touch(useOrder, id)
                 ELSE useOrder
  /\ insRun' = IF op = "NewProgram" THEN TrimRun(Append(insRun, id)) ELSE <<>>
  /\ evicted' = lruKeys(programs) \ lruKeys(c)

storeVars == <<programs, last, useOrder, insRun, evicted>>
threadVars == <<tpc, tprog, tlpc>>
waitVars == <<wpc, wid, wval, ch, rcv>>
jitVars == <<storeVars, threadVars, waitVars, heap, runs, vd>>
calcVars == <<gcall, gstatedb, gstack, gret>>
bmtVars == <<hashFunc, bt, bdata, bhasher, bout, verr, prf, chk>>
stepVars == <<rc, rwriter, gh>>

Ids(codes) == { Keccak256Hash(c) : c \in codes }

\* ------------------------------------------------------------------ Init
\* The state after the package's init(): SetJITCacheSize(defaultJitMaxCache).
InitJit ==
  /\ programs = SetJITCacheSize(defaultJitMaxCache)
  /\ heap = <<>>
  /\ tpc = [t \in Threads |-> "idle"]
  /\ tprog = [t \in Threads |-> 0]
  /\ tlpc = [t \in Threads |-> 0]
  /\ wpc = "none"
  /\ wid = <<>>
  /\ wval = progUnknown
  /\ ch = [recvd |-> <<>>, closed |-> FALSE]
  /\ rcv = "waiting"
  /\ vd = [prog |-> 0, dest |-> <<0, 0, 0, 0, 0>>, ret |-> FALSE]
  /\ last = [op |-> "init", id |-> <<>>, ret |-> 0]
  /\ useOrder = <<>>
  /\ insRun = <<>>
  /\ evicted = {}
  /\ runs = <<>>

\* No call of the gas meter is under way.
InitMeterIdle ==
  /\ gcall = GasInput(STOP, <<>>, DefaultGasTable, DefaultEnv, <<>>, <<>>,
                      DefaultStateDb, <<>>).gcall
  /\ gstatedb = DefaultStateDb
  /\ gstack = <<>>
  /\ gret = NoReturn

\* The package's initial hasher; nothing built, validated, proved or checked.
InitBmtFrom(h) ==
  /\ hashFunc = h
  /\ bt = BTree(0, nil, <<>>)
  /\ bdata = <<>>
  /\ bhasher = h
  /\ bout = "none"
  /\ verr = NoValidate
  /\ prf = NoProof
  /\ chk = NoCheck

InitBmt == InitBmtFrom(Keccak256)

\* No concurrent caller of the tree has started, GetHeight is not running.
Callers == {1, 2}
IdleCaller == [pc |-> "idle", kind |-> "none", h |-> 0, label |-> <<>>, root |-> <<>>, used |-> <<>>, ret |-> "none"]
IdleHeight == [pc |-> "idle", count |-> <<>>, height |-> 0, ret |-> 0]

InitStep ==
  /\ rc = [c \in Callers |-> IdleCaller]
  /\ rwriter = 0
  /\ gh = IdleHeight

Init == InitJit /\ InitMeterIdle /\ InitBmt /\ InitStep

\* The execution engine is about to call calculateGasAndSize on an
\* instruction, with its stack, memory and world.
InitGasFrom(inputs) ==
  \E i \in inputs :
    /\ gcall = i.gcall
    /\ gstatedb = i.statedb
    /\ gstack = i.stack

InitGas ==
  /\ InitJit
  /\ \/ InitGasFrom(SstoreInputs)
     \/ InitGasFrom(SuicideInputs)
     \/ InitGasFrom(CallInputs)
     \/ InitGasFrom(FarCallInputs)
     \/ InitGasFrom(CopyInputs)
     \/ InitGasFrom(OtherInputs)
  /\ gret = NoReturn
  /\ InitBmt
  /\ InitStep

\* ----------------------------------------------------- the store's actions
\* SetJITCacheSize is not thread safe: it is called while no thread is in
\* CompileProgram, with a positive size (lru.New rejects the others).
DoSetJITCacheSize(size) ==
  /\ \A t \in Threads : tpc[t] = "idle"
  /\ programs' = SetJITCacheSize(size)
  /\ last' = [op |-> "SetJITCacheSize", id |-> <<>>, ret |-> 0]
  /\ useOrder' = <<>>
  /\ insRun' = <<>>
  /\ evicted' = {}
  /\ UNCHANGED <<heap, runs, vd>>
  /\ UNCHANGED threadVars
  /\ UNCHANGED waitVars
  /\ UNCHANGED <<calcVars, bmtVars, stepVars>>

DoNewProgram(t, codes, maxProgs) ==
  /\ tpc[t] = "idle"
  /\ Len(heap) < maxProgs
  /\ \E code \in codes :
       LET r == NewProgram(programs, heap, code)
       IN /\ heap' = r.heap
          /\ Record("NewProgram", Keccak256Hash(code), r.programs, r.ret)
  /\ runs' = Append(runs, 0)
  /\ UNCHANGED vd
  /\ UNCHANGED threadVars
  /\ UNCHANGED waitVars
  /\ UNCHANGED <<calcVars, bmtVars, stepVars>>

DoGetProgram(t, id) ==
  /\ tpc[t] = "idle"
  /\ LET r == GetProgram(programs, id)
     IN Record("GetProgram", id, r.programs, r.ret)
  /\ UNCHANGED <<heap, runs, vd>>
  /\ UNCHANGED threadVars
  /\ UNCHANGED waitVars
  /\ UNCHANGED <<calcVars, bmtVars, stepVars>>

DoGetProgramStatus(t, id) ==
  /\ tpc[t] = "idle"
  /\ LET r == GetProgramStatus(programs, heap, id)
     IN Record("GetProgramStatus", id, r.programs, r.ret)
  /\ UNCHANGED <<heap, runs, vd>>
  /\ UNCHANGED threadVars
  /\ UNCHANGED waitVars
  /\ UNCHANGED <<calcVars, bmtVars, stepVars>>

\* ------------------------------------------------ CompileProgram, by steps
\* The load of the status and the early return (lines 129-131).
CompileProgram_load(t, o, maxRuns) ==
  /\ tpc[t] = "idle"
  /\ runs[o] < maxRuns
  /\ IF heap[o].status = progCompile
     THEN UNCHANGED <<tpc, tprog, runs>>
     ELSE /\ tpc' = [tpc EXCEPT ![t] = "store"]
          /\ tprog' = [tprog EXCEPT ![t] = o]
          /\ runs' = [runs EXCEPT ![o] = @ + 1]
  /\ UNCHANGED <<heap, tlpc, vd>>
  /\ UNCHANGED storeVars
  /\ UNCHANGED waitVars
  /\ UNCHANGED <<calcVars, bmtVars, stepVars>>

\* The store of progCompile (line 132) and the loop's pc := 0.
CompileProgram_store(t) ==
  /\ tpc[t] = "store"
  /\ heap' = [heap EXCEPT ![tprog[t]].status = progCompile]
  /\ tpc' = [tpc EXCEPT ![t] = "loop"]
  /\ tlpc' = [tlpc EXCEPT ![t] = 0]
  /\ UNCHANGED <<tprog, runs, vd>>
  /\ UNCHANGED storeVars
  /\ UNCHANGED waitVars
  /\ UNCHANGED <<calcVars, bmtVars, stepVars>>

\* One iteration of the loop (lines 145-290).  The append and the map write
\* of addInstr are taken as one step of the thread.
CompileProgram_loop(t) ==
  /\ tpc[t] = "loop"
  /\ tlpc[t] < Len(heap[tprog[t]].code)
  /\ LET r == compileInstr(heap[tprog[t]], tlpc[t])
     IN /\ heap' = [heap EXCEPT ![tprog[t]] = r.prog]
        /\ tlpc' = [tlpc EXCEPT ![t] = r.pc]
  /\ UNCHANGED <<tpc, tprog, runs, vd>>
  /\ UNCHANGED storeVars
  /\ UNCHANGED waitVars
  /\ UNCHANGED <<calcVars, bmtVars, stepVars>>

\* The loop's exit and the deferred store of progReady (lines 133-135).
CompileProgram_defer(t) ==
  /\ tpc[t] = "loop"
  /\ tlpc[t] >= Len(heap[tprog[t]].code)
  /\ heap' = [heap EXCEPT ![tprog[t]].status = progReady]
  /\ tpc' = [tpc EXCEPT ![t] = "idle"]
  /\ tprog' = [tprog EXCEPT ![t] = 0]
  /\ tlpc' = [tlpc EXCEPT ![t] = 0]
  /\ UNCHANGED <<runs, vd>>
  /\ UNCHANGED storeVars
  /\ UNCHANGED waitVars
  /\ UNCHANGED <<calcVars, bmtVars, stepVars>>

\* validDest on the destinations of a compiled program.
DoValidDest(o, dest) ==
  /\ heap[o].status = progReady
  /\ vd' = [prog |-> o, dest |-> dest, ret |-> validDest(heap[o].destinations, dest)]
  /\ UNCHANGED <<heap, runs>>
  /\ UNCHANGED storeVars
  /\ UNCHANGED threadVars
  /\ UNCHANGED waitVars
  /\ UNCHANGED <<calcVars, bmtVars, stepVars>>

\* ------------------------------------------------------------ WaitCompile
\* WaitCompile(id): makes the channel and starts the goroutine.
WaitCompile(id) ==
  /\ wpc = "none"
  /\ wpc' = "poll"
  /\ wid' = id
  /\ ch' = [recvd |-> <<>>, closed |-> FALSE]
  /\ rcv' = "waiting"
  /\ UNCHANGED <<wval, heap, runs, vd>>
  /\ UNCHANGED storeVars
  /\ UNCHANGED threadVars
  /\ UNCHANGED <<calcVars, bmtVars, stepVars>>

\* The loop condition taken as GetProgramStatus(id) != progReady.
Wait_poll_WhileNotReady ==
  /\ wpc = "poll"
  /\ LET r == GetProgramStatus(programs, heap, wid)
     IN /\ Record("GetProgramStatus", wid, r.programs, r.ret)
        /\ wpc' = IF r.ret # progReady THEN "poll" ELSE "eval"
  /\ UNCHANGED <<wid, wval, ch, rcv, heap, runs, vd>>
  /\ UNCHANGED threadVars
  /\ UNCHANGED <<calcVars, bmtVars, stepVars>>

\* The loop condition GetProgramStatus(id) == progCompile; a true condition
\* is followed by the sleep and the next evaluation.
Wait_poll ==
  /\ wpc = "poll"
  /\ LET r == GetProgramStatus(programs, heap, wid)
     IN /\ Record("GetProgramStatus", wid, r.programs, r.ret)
        /\ wpc' = IF r.ret = progCompile THEN "poll" ELSE "eval"
  /\ UNCHANGED <<wid, wval, ch, rcv, heap, runs, vd>>
  /\ UNCHANGED threadVars
  /\ UNCHANGED <<calcVars, bmtVars, stepVars>>

\* The operand of the send statement: a second GetProgramStatus(id).
Wait_eval ==
  /\ wpc = "eval"
  /\ LET r == GetProgramStatus(programs, heap, wid)
     IN /\ Record("GetProgramStatus", wid, r.programs, r.ret)
        /\ wval' = r.ret
  /\ wpc' = "send"
  /\ UNCHANGED <<wid, ch, rcv, heap, runs, vd>>
  /\ UNCHANGED threadVars
  /\ UNCHANGED <<calcVars, bmtVars, stepVars>>

\* The send on the unbuffered channel: it proceeds only with a receiver
\* waiting on the other side.
Wait_send ==
  /\ wpc = "send"
  /\ rcv = "waiting"
  /\ ch' = [ch EXCEPT !.recvd = Append(@, wval)]
  /\ wpc' = "close"
  /\ UNCHANGED <<wid, wval, rcv, heap, runs, vd>>
  /\ UNCHANGED storeVars
  /\ UNCHANGED threadVars
  /\ UNCHANGED <<calcVars, bmtVars, stepVars>>

\* The deferred close(ch).
Wait_close ==
  /\ wpc = "close"
  /\ ch' = [ch EXCEPT !.closed = TRUE]
  /\ wpc' = "done"
  /\ UNCHANGED <<wid, wval, rcv, heap, runs, vd>>
  /\ UNCHANGED storeVars
  /\ UNCHANGED threadVars
  /\ UNCHANGED <<calcVars, bmtVars, stepVars>>

\* The caller stops receiving from the channel WaitCompile returned.  The
\* function takes no argument besides id, so this is all a caller can do.
Receiver_leave ==
  /\ wpc \notin {"none", "done"}
  /\ rcv = "waiting"
  /\ rcv' = "gone"
  /\ UNCHANGED <<wpc, wid, wval, ch, heap, runs, vd>>
  /\ UNCHANGED storeVars
  /\ UNCHANGED threadVars
  /\ UNCHANGED <<calcVars, bmtVars, stepVars>>

\* ----------------------------------------------------- calculateGasAndSize
\* The call of calculateGasAndSize: it returns (size, gas, err), and leaves
\* its writes to the stack and to the refund counter of statedb.
Returned(r) ==
  /\ gret' = [size |-> r.size, gas |-> r.gas, err |-> r.err]
  /\ gstack' = r.stack
  /\ gstatedb' = [gstatedb EXCEPT !.refund = r.refund]

DoCalculateGasAndSize ==
  /\ gret = NoReturn
  /\ Returned(calculateGasAndSize(gcall.gasTable, gcall.env, gcall.contract,
                                  gcall.instr, gstatedb, gcall.memLen, gstack))
  /\ UNCHANGED gcall
  /\ UNCHANGED <<jitVars, bmtVars, stepVars>>

\* ------------------------------------------------ the Merkle tree's calls
\* tree := Build(data), under the package's current hasher.
DoBuild(data) ==
  /\ bout = "none"
  /\ bt' = Build(hashFunc, data)
  /\ bdata' = data
  /\ bhasher' = hashFunc
  /\ bout' = IF BuildPanics(hashFunc, data) THEN "panic" ELSE "built"
  /\ verr' = NoValidate
  /\ prf' = NoProof
  /\ chk' = NoCheck
  /\ UNCHANGED hashFunc
  /\ UNCHANGED <<jitVars, calcVars, stepVars>>

\* tree.Validate()
DoValidate ==
  /\ bout = "built"
  /\ verr' = [h |-> hashFunc, err |-> Validate(hashFunc, bt)]
  /\ UNCHANGED <<hashFunc, bt, bdata, bhasher, bout, prf, chk>>
  /\ UNCHANGED <<jitVars, calcVars, stepVars>>

\* tree.InclusionProof(index)
DoInclusionProof(index) ==
  /\ bout = "built"
  /\ prf = NoProof
  /\ prf' = [index |-> index, b |-> InclusionProof(bt, index).b,
             panic |-> InclusionProof(bt, index).panic]
  /\ chk' = NoCheck
  /\ UNCHANGED <<hashFunc, bt, bdata, bhasher, bout, verr>>
  /\ UNCHANGED <<jitVars, calcVars, stepVars>>

\* (&Root{count, tree.Root()}).CheckProof(h, proof, index)
DoCheckProof(h, proof, index, count) ==
  /\ bout = "built"
  /\ hashFunc' = h
  /\ chk' = [h |-> h, proof |-> proof, index |-> index, count |-> count,
             ret |-> CheckProof(h, Root(count, bt.rootHash), proof, index)]
  /\ UNCHANGED <<bt, bdata, bhasher, bout, verr, prf>>
  /\ UNCHANGED <<jitVars, calcVars, stepVars>>

\* The caller presents the proof it was given, or that proof with one
\* element changed, added or removed, or another index, or another count.
DoCheckProofOf(h) ==
  /\ prf # NoProof
  /\ chk = NoCheck
  /\ ~prf.panic
  /\ \/ \E proof \in {prf.b} \cup Alterations(prf.b) :
          DoCheckProof(h, proof, prf.index, bt.count)
     \/ \E index \in 0..MaxLeaves : DoCheckProof(h, prf.b, index, bt.count)
     \/ \E count \in 0..(MaxLeaves + 1) :
          DoCheckProof(h, prf.b, prf.index, count)

\* ------------------------------------- concurrent callers of the tree
\* Two goroutines call BuildBMT or CheckProof on the same two blocks, each
\* with the hasher it was handed.  hashFunc is a package-level func value
\* written and read without synchronisation: a read returns the value of
\* one of the writes, and every order of the writes and reads of the two
\* goroutines is a behaviour.
RaceBlocks == << << <<120>> >>, << <<121>> >> >>
RaceLeaf(i) == Node(RaceBlocks[i], nil, nil)
RaceRoot(h) == Root(Len(RaceBlocks), rootHash(h, Len(RaceBlocks), makeHash(h, RaceLeaf(1), RaceLeaf(2))))
bmtRest == <<bt, bdata, bhasher, bout, verr, prf, chk>>

\* Caller c moves to pc; Hashed: it has called hashFunc() on the way.
Moved(c, pc, label, root, ret) ==
  rc' = [rc EXCEPT ![c] = [@ EXCEPT !.pc = pc, !.label = label, !.root = root, !.ret = ret]]

Hashed(c, pc, label, root, ret) ==
  rc' = [rc EXCEPT ![c] = [@ EXCEPT !.pc = pc, !.label = label, !.root = root, !.ret = ret,
                                    !.used = Append(@, hashFunc)]]

CallTree(c, kind, h) ==
  /\ rc[c].pc = "idle"
  /\ rc' = [rc EXCEPT ![c] = [IdleCaller EXCEPT !.pc = "set", !.kind = kind, !.h = h]]
  /\ UNCHANGED <<hashFunc, rwriter, gh, bmtRest, jitVars, calcVars>>

\* BuildBMT keeping its hasher to itself.
BuildBMT_set_Local(c) ==
  /\ rc[c].pc = "set"
  /\ rc[c].kind = "BuildBMT"
  /\ rwriter' = c
  /\ Moved(c, "makeHash", <<>>, <<>>, "none")
  /\ UNCHANGED <<hashFunc, gh, bmtRest, jitVars, calcVars>>

\* BuildBMT: hashFunc = h
BuildBMT_set(c) ==
  /\ rc[c].pc = "set"
  /\ rc[c].kind = "BuildBMT"
  /\ hashFunc' = rc[c].h
  /\ rwriter' = c
  /\ Moved(c, "makeHash", <<>>, <<>>, "none")
  /\ UNCHANGED <<gh, bmtRest, jitVars, calcVars>>

\* Build, buildNode at the root of two leaves: the label of the root
Build_makeHash(c) ==
  /\ rc[c].pc = "makeHash"
  /\ Hashed(c, "rootHash", makeHash(hashFunc, RaceLeaf(1), RaceLeaf(2)), <<>>, "none")
  /\ UNCHANGED <<hashFunc, rwriter, gh, bmtRest, jitVars, calcVars>>

\* Build: the root hash
Build_rootHash(c) ==
  /\ rc[c].pc = "rootHash"
  /\ Hashed(c, "validate", rc[c].label,
            rootHash(hashFunc, Len(RaceBlocks), rc[c].label), "none")
  /\ UNCHANGED <<hashFunc, rwriter, gh, bmtRest, jitVars, calcVars>>

\* tree.Validate(), the label of the root recomputed: BuildBMT returns -1
\* on a mismatch
Validate_makeHash(c) ==
  /\ rc[c].pc = "validate"
  /\ IF makeHash(hashFunc, RaceLeaf(1), RaceLeaf(2)) # rc[c].label
     THEN Hashed(c, "done", rc[c].label, rc[c].root, "-1")
     ELSE Hashed(c, "validateRoot", rc[c].label, rc[c].root, "none")
  /\ UNCHANGED <<hashFunc, rwriter, gh, bmtRest, jitVars, calcVars>>

\* tree.Validate(), the root hash recomputed; then BuildBMT returns
Validate_rootHash(c) ==
  /\ rc[c].pc = "validateRoot"
  /\ IF rootHash(hashFunc, Len(RaceBlocks), rc[c].label) # rc[c].root
     THEN Hashed(c, "done", rc[c].label, rc[c].root, "-1")
     ELSE Hashed(c, "done", rc[c].label, rc[c].root, "0")
  /\ UNCHANGED <<hashFunc, rwriter, gh, bmtRest, jitVars, calcVars>>

\* CheckProof: hashFunc = h
CheckProof_set(c) ==
  /\ rc[c].pc = "set"
  /\ rc[c].kind = "CheckProof"
  /\ hashFunc' = rc[c].h
  /\ rwriter' = c
  /\ Moved(c, "checkNode", <<>>, <<>>, "none")
  /\ UNCHANGED <<gh, bmtRest, jitVars, calcVars>>

\* CheckProof of the proof of index 0, checkNode at height 2: h := hashFunc()
CheckProof_checkNode(c) ==
  /\ rc[c].pc = "checkNode"
  /\ Hashed(c, "checkRoot",
            checkNode(hashFunc, GetHeight(Len(RaceBlocks)), RaceBlocks, 0, Len(RaceBlocks))[1],
            <<>>, "none")
  /\ UNCHANGED <<hashFunc, rwriter, gh, bmtRest, jitVars, calcVars>>

\* CheckProof: base := rootHash(r.Count, root), compared with r.Base
CheckProof_rootHash(c) ==
  /\ rc[c].pc = "checkRoot"
  /\ Hashed(c, "done", rc[c].label,
            rootHash(hashFunc, Len(RaceBlocks), rc[c].label),
            IF rootHash(hashFunc, Len(RaceBlocks), rc[c].label) = RaceRoot(rc[c].h).Base
            THEN "true" ELSE "false")
  /\ UNCHANGED <<hashFunc, rwriter, gh, bmtRest, jitVars, calcVars>>

\* ------------------------------------------------------ GetHeight by steps
\* 2^k as a natural, and the uint64 1 << uint(height): a shift by 64 or more
\* gives 0.
Pow2Nat(k) == Zeros(k \div 16) \o <<2 ^ (k % 16)>>
Shl1(height) == IF height >= 64 THEN <<>> ELSE Pow2Nat(height)

\* The counts GetHeight is called with: 0, the powers of two and their
\* successors, the largest uint64.
HeightCounts == { <<>>, maxUint64 } \cup { Pow2Nat(k) : k \in 0..63 } \cup { NatAdd(Pow2Nat(k), NatOf(1)) : k \in 0..63 }

\* GetHeight: count == 0 returns 0, otherwise height := 0
GetHeight_call(count) ==
  /\ gh.pc = "idle"
  /\ gh' = IF count = <<>>
           THEN [pc |-> "done", count |-> count, height |-> 0, ret |-> 0]
           ELSE [pc |-> "loop", count |-> count, height |-> 0, ret |-> 0]
  /\ UNCHANGED <<jitVars, calcVars, bmtVars, rc, rwriter>>

\* One test of the loop condition count > (1 << uint(height)), then height++
\* or return height + 1.  The model follows the loop up to MaxHeight.
GetHeight_loop ==
  /\ gh.pc = "loop"
  /\ gh.height < MaxHeight
  /\ gh' = IF NatCmp(gh.count, Shl1(gh.height)) > 0
           THEN [gh EXCEPT !.height = @ + 1]
           ELSE [gh EXCEPT !.pc = "done", !.ret = gh.height + 1]
  /\ UNCHANGED <<jitVars, calcVars, bmtVars, rc, rwriter>>

\* --------------------------------------------------------- specifications
\* Threads calling NewProgram and CompileProgram while WaitCompile runs.
Next ==
  \/ \E t \in Threads : DoNewProgram(t, ConcCodes, MaxConcProgs)
  \/ \E t \in Threads, o \in 1..Len(heap) : CompileProgram_load(t, o, MaxRuns)
  \/ \E t \in Threads : CompileProgram_store(t)
  \/ \E t \in Threads : CompileProgram_loop(t)
  \/ \E t \in Threads : CompileProgram_defer(t)
  \/ \E id \in Ids(ConcCodes) : WaitCompile(id)
  \/ Wait_poll
  \/ Wait_eval
  \/ Wait_send
  \/ Wait_close

Spec == Init /\ [][Next]_vars

\* One caller using the store: resizing, inserting, looking up, compiling.
NextStore ==
  \/ \E size \in 1..MaxCap : DoSetJITCacheSize(size)
  \/ DoNewProgram(1, StoreCodes, MaxProgs)
  \/ \E id \in Ids(StoreCodes) : DoGetProgram(1, id)
  \/ \E id \in Ids(StoreCodes) : DoGetProgramStatus(1, id)
  \/ \E o \in 1..Len(heap) : CompileProgram_load(1, o, 1)
  \/ CompileProgram_store(1)
  \/ CompileProgram_loop(1)
  \/ CompileProgram_defer(1)

SpecStore == Init /\ [][NextStore]_vars

\* One CompileProgram run on a fresh Program of any code, then validDest.
NextDecode ==
  \/ DoNewProgram(1, AllCodes, 1)
  \/ \E o \in 1..Len(heap) : CompileProgram_load(1, o, 1)
  \/ CompileProgram_store(1)
  \/ CompileProgram_loop(1)
  \/ CompileProgram_defer(1)
  \/ \E o \in 1..Len(heap), dest \in DestInputs : DoValidDest(o, dest)

SpecDecode == Init /\ [][NextDecode]_vars

\* One compiling thread, the WaitCompile goroutine and its receiver.  The
\* goroutine is scheduled fairly: a step of it that stays possible is taken.
NextWait ==
  \/ DoNewProgram(1, ConcCodes, MaxConcProgs)
  \/ \E o \in 1..Len(heap) : CompileProgram_load(1, o, MaxRuns)
  \/ CompileProgram_store(1)
  \/ CompileProgram_loop(1)
  \/ CompileProgram_defer(1)
  \/ \E id \in Ids(ConcCodes) : WaitCompile(id)
  \/ Wait_poll
  \/ Wait_eval
  \/ Wait_send
  \/ Wait_close
  \/ Receiver_leave

WaitFairness ==
  /\ WF_vars(Wait_poll)
  /\ WF_vars(Wait_eval)
  /\ WF_vars(Wait_send)
  /\ WF_vars(Wait_close)

SpecWait == Init /\ [][NextWait]_vars /\ WaitFairness

\* One call of the gas meter on each of its inputs.
NextGas == DoCalculateGasAndSize

SpecGas == InitGas /\ [][NextGas]_vars

\* One caller of the Merkle tree: building, validating, proving, checking.
NextBmt ==
  \/ \E data \in BlockLists : DoBuild(data)
  \/ DoValidate
  \/ \E index \in 0..MaxLeaves : DoInclusionProof(index)
  \/ \E h \in Hashers : DoCheckProofOf(h)

\* An earlier BuildBMT or CheckProof may have left either hasher in hashFunc.
InitBmtAny == InitJit /\ InitMeterIdle /\ InitStep /\ \E h \in Hashers : InitBmtFrom(h)

SpecBmt == InitBmtAny /\ [][NextBmt]_vars

\* Two goroutines, each in one BuildBMT or CheckProof call.
NextRace ==
  \/ \E c \in Callers, kind \in {"BuildBMT", "CheckProof"}, h \in Hashers : CallTree(c, kind, h)
  \/ \E c \in Callers : BuildBMT_set(c)
  \/ \E c \in Callers : Build_makeHash(c)
  \/ \E c \in Callers : Build_rootHash(c)
  \/ \E c \in Callers : Validate_makeHash(c)
  \/ \E c \in Callers : Validate_rootHash(c)
  \/ \E c \in Callers : CheckProof_set(c)
  \/ \E c \in Callers : CheckProof_checkNode(c)
  \/ \E c \in Callers : CheckProof_rootHash(c)

SpecRace == Init /\ [][NextRace]_vars

\* One call of GetHeight on each count.
NextHeight ==
  \/ \E count \in HeightCounts : GetHeight_call(count)
  \/ GetHeight_loop

SpecHeight == Init /\ [][NextHeight]_vars


\* ================================================================ claims

\* ---- C1 ----------------------------------------------------------------
\* C1: the status of a Program only ever changes along Unknown -> Compiling,
\* Compiling -> Ready and Compiling -> Error, under any interleaving of
\* NewProgram and CompileProgram calls.
AllowedEdges ==
  { <<progUnknown, progCompile>>, <<progCompile, progReady>>,
    <<progCompile, progError>> }

C1_StatusEdges ==
  [][\A o \in 1..Len(heap) :
       heap'[o].status # heap[o].status =>
         <<heap[o].status, heap'[o].status>> \in AllowedEdges]_vars

\* ---- C2 ----------------------------------------------------------------
\* A step of NewProgram: the only action that allocates a Program.
IsNewProgramStep == Len(heap') = Len(heap) + 1

\* C2 as stated: when the store holds a Ready program under Keccak(code),
\* NewProgram(code) leaves that entry in place, so GetProgram still returns
\* the same object and GetProgramStatus is still Ready.
C2_KeepsReadyEntry ==
  [][IsNewProgramStep =>
       LET id == last'.id
           old == GetProgram(programs, id).ret
       IN (old # 0 /\ heap[old].status = progReady) =>
            /\ GetProgram(programs', id).ret = old
            /\ GetProgramStatus(programs', heap', id).ret = progReady]_vars

\* C2 amended: when the store holds a Ready program under Keccak(code),
\* NewProgram(code) replaces that entry by the fresh Program it returns, whose
\* status is Unknown: GetProgram then returns the new object, not the old one,
\* and GetProgramStatus is Unknown.
C2_ReplacesReadyEntry ==
  [][IsNewProgramStep =>
       LET id == last'.id
           old == GetProgram(programs, id).ret
       IN (old # 0 /\ heap[old].status = progReady) =>
            /\ last'.ret = Len(heap')
            /\ GetProgram(programs', id).ret = last'.ret
            /\ GetProgram(programs', id).ret # old
            /\ heap'[last'.ret].Id = id
            /\ GetProgramStatus(programs', heap', id).ret = progUnknown]_vars

\* A state right after NewProgram(code) found a Ready program under its id:
\* nothing was ever evicted (the default size), an older Program of the same
\* id is Ready, and the cache now holds the new one.
C2_Witness ==
  /\ last.op = "NewProgram"
  /\ programs.size = defaultJitMaxCache
  /\ last.ret = Len(heap)
  /\ heap[last.ret].status = progUnknown
  /\ \E o \in 1..(Len(heap) - 1) :
       /\ heap[o].Id = last.id
       /\ heap[o].status = progReady
       /\ \A q \in (o + 1)..(Len(heap) - 1) : heap[q].Id # last.id
  /\ GetProgram(programs, last.id).ret = last.ret

\* ---- C3 ----------------------------------------------------------------
\* The least recently used of the keys: the one furthest back in order.
LeastRecent(order, keys) ==
  order[CHOOSE i \in 1..Len(order) :
          /\ order[i] \in keys
          /\ \A j \in (i + 1)..Len(order) : order[j] \notin keys]

\* C3: an insertion of a new id that finds the cache full evicts exactly the
\* least recently used entry, a use being an insertion or a lookup that finds
\* the id; any other insertion evicts nothing.
C3_EvictsLeastRecent ==
  [][IsNewProgramStep =>
       /\ lruKeys(programs) \subseteq Range(useOrder)
       /\ evicted' = IF /\ Len(programs.items) = programs.size
                        /\ last'.id \notin lruKeys(programs)
                     THEN {LeastRecent(useOrder, lruKeys(programs))}
                     ELSE {}]_vars

\* The scenario of the claim: capacity 2; insert P1, insert P2, Get(P1),
\* insert P3; P1 and P3 are present and P2 was evicted.
C3_Witness ==
  /\ programs.size = 2
  /\ Len(heap) = 3
  /\ last.op = "NewProgram"
  /\ last.id = heap[3].Id
  /\ useOrder = <<heap[3].Id, heap[1].Id, heap[2].Id>>
  /\ evicted = {heap[2].Id}
  /\ lruKeys(programs) = {heap[1].Id, heap[3].Id}
  /\ GetProgram(programs, heap[2].Id).ret = 0
  /\ GetProgram(programs, heap[1].Id).ret = 1
  /\ GetProgram(programs, heap[3].Id).ret = 3

\* ---- C4 ----------------------------------------------------------------
Distinct(s) == \A i, j \in 1..Len(s) : i # j => s[i] # s[j]

\* C4: the store never holds more than its capacity; right after
\* NewProgram(code), GetProgram(Keccak(code)) returns the program NewProgram
\* returned; after capacity + 1 insertions of pairwise distinct ids with no
\* lookup in between, the first of them is absent.
C4_BoundedStore ==
  /\ Len(programs.items) <= programs.size
  /\ Cardinality(lruKeys(programs)) = Len(programs.items)
  /\ last.op = "NewProgram" =>
       /\ last.ret = Len(heap)
       /\ GetProgram(programs, last.id).ret = last.ret
  /\ LET n == programs.size + 1
     IN Len(insRun) >= n =>
          LET run == SubSeq(insRun, Len(insRun) - n + 1, Len(insRun))
          IN Distinct(run) => run[1] \notin lruKeys(programs)

\* A full cache of capacity 2 right after three insertions of distinct ids.
C4_Witness ==
  /\ programs.size = 2
  /\ Len(programs.items) = 2
  /\ Len(insRun) = 3
  /\ Distinct(insRun)
  /\ last.op = "NewProgram"
  /\ insRun[1] \notin lruKeys(programs)

\* ---- C5 ----------------------------------------------------------------
\* Program o has been compiled by exactly one CompileProgram run.
CompiledOnce(o) == runs[o] = 1 /\ heap[o].status = progReady

InstrPcs(p) == { p.instructions[i].pc : i \in 1..Len(p.instructions) }

\* C5: after one CompileProgram run on a fresh Program, the pc map sends the
\* pc of the instruction at index i to i, and has no other keys.
C5_PcMap ==
  \A o \in 1..Len(heap) :
    CompiledOnce(o) =>
      LET p == heap[o]
      IN /\ \A i \in 1..Len(p.instructions) :
              /\ p.instructions[i].pc \in DOMAIN p.mapping
              /\ p.mapping[p.instructions[i].pc] = i - 1
         /\ DOMAIN p.mapping = InstrPcs(p)

\* A compiled program whose second instruction follows a PUSH1: pc 2, index 1.
C5_Witness ==
  \E o \in 1..Len(heap) :
    /\ CompiledOnce(o)
    /\ Len(heap[o].instructions) = 2
    /\ heap[o].instructions[1].op = PUSH1
    /\ heap[o].instructions[2].pc = 2
    /\ heap[o].mapping[2] = 1

\* ---- C6 ----------------------------------------------------------------
\* The number of immediate bytes the instruction ins owns: n for PUSH_n.
ImmLen(ins) == IF ins.op >= 96 /\ ins.op <= 127 THEN ins.op - 95 ELSE 0

\* C6: after compiling, the jump destinations are exactly the pcs at which a
\* JUMPDEST byte was decoded as an instruction; no pc inside the immediate
\* bytes of a PUSH is in the set; the code 60 5B 00 has none.
C6_JumpDests ==
  \A o \in 1..Len(heap) :
    CompiledOnce(o) =>
      LET p == heap[o]
      IN /\ p.destinations =
              { p.instructions[i].pc :
                  i \in { j \in 1..Len(p.instructions) : p.instructions[j].op = 91 } }
         /\ \A k \in p.destinations : k < Len(p.code) /\ p.code[k + 1] = 91
         /\ \A i \in 1..Len(p.instructions) :
              \A k \in (p.instructions[i].pc + 1)..
                       (p.instructions[i].pc + ImmLen(p.instructions[i])) :
                k \notin p.destinations
         /\ p.code = <<96, 91, 0>> => p.destinations = {}

\* A compiled program with a 0x5B inside a PUSH1 and a decoded JUMPDEST.
C6_Witness ==
  \E o \in 1..Len(heap) :
    /\ CompiledOnce(o)
    /\ heap[o].code = <<96, 91, 91>>
    /\ heap[o].destinations = {2}

\* ---- C7 ----------------------------------------------------------------
\* The code bytes of instruction i: its opcode and the immediate bytes that
\* exist.
Window(p, i) ==
  SubSeq(p.code, p.instructions[i].pc + 1,
         Min(p.instructions[i].pc + 1 + ImmLen(p.instructions[i]), Len(p.code)))

RECURSIVE Windows(_, _)
Windows(p, n) == IF n = 0 THEN <<>> ELSE Windows(p, n - 1) \o Window(p, n)

\* C7: the instructions partition the code: the first is at pc 0, each next
\* one at the previous pc plus 1, plus n more after a PUSH_n; every code byte
\* lies in exactly one instruction's window; the windows in order give the
\* code.
C7_Partition ==
  \A o \in 1..Len(heap) :
    CompiledOnce(o) =>
      LET p == heap[o]
          n == Len(p.instructions)
      IN /\ (n = 0) = (Len(p.code) = 0)
         /\ n > 0 => p.instructions[1].pc = 0
         /\ \A i \in 1..n :
              /\ p.instructions[i].pc < Len(p.code)
              /\ p.instructions[i].op = p.code[p.instructions[i].pc + 1]
         /\ \A i \in 1..(n - 1) :
              p.instructions[i + 1].pc =
                p.instructions[i].pc + 1 + ImmLen(p.instructions[i])
         /\ \A k \in 0..(Len(p.code) - 1) :
              Cardinality({ i \in 1..n :
                              /\ p.instructions[i].pc <= k
                              /\ k <= p.instructions[i].pc + ImmLen(p.instructions[i]) }) = 1
         /\ Windows(p, n) = p.code

\* A compiled program of an unknown byte and a PUSH2 cut short by the end.
C7_Witness ==
  \E o \in 1..Len(heap) :
    /\ CompiledOnce(o)
    /\ heap[o].code = <<12, 97, 91>>
    /\ Len(heap[o].instructions) = 2
    /\ heap[o].instructions[1].fn = NilFn
    /\ heap[o].instructions[2].pc = 1

\* ---- C8 ----------------------------------------------------------------
RECURSIVE Pow256(_)
Pow256(n) == IF n = 0 THEN 1 ELSE 256 * Pow256(n - 1)

\* The code byte at pc k, zero past the end of the code.
ByteOrZero(code, k) == IF k < Len(code) THEN code[k + 1] ELSE 0

RECURSIVE SumTo(_, _, _)
SumTo(code, pc, n) ==
  IF n = 0 THEN 0 ELSE 256 * SumTo(code, pc, n - 1) + ByteOrZero(code, pc + n)

\* The value of the immediate bytes of the code that exist after pc, alone.
AvailValue(code, pc, n) == SumTo(code, pc, Min(n, Len(code) - pc - 1))

C9_ValidDest ==
  vd.prog # 0 =>
    LET p == heap[vd.prog]
    IN /\ vd.ret = (/\ vd.dest[5] = 0
                    /\ \E k \in p.destinations : vd.dest = <<k, 0, 0, 0, 0>>)
       /\ p.code = <<>> => vd.ret = FALSE

\* A call that returned true, on a program that has a jump destination.
C9_Witness ==
  /\ vd.prog # 0
  /\ vd.ret = TRUE
  /\ vd.dest[5] = 0
  /\ Cardinality(heap[vd.prog].destinations) = 2

\* ---- C10 ---------------------------------------------------------------
\* C10: WaitCompile sends exactly one value and then closes the channel, and
\* the value sent is never Compiling.
C10_OneValueNotCompiling ==
  /\ Len(ch.recvd) <= 1
  /\ ch.closed => Len(ch.recvd) = 1
  /\ \A i \in 1..Len(ch.recvd) : ch.recvd[i] # progCompile

\* ---- C11 ---------------------------------------------------------------
\* The status a GetProgramStatus(wid) would return now.
WaitStatus == GetProgramStatus(programs, heap, wid).ret

\* C11: with the goroutine scheduled fairly, if from some point on the status
\* of id is not Compiling and the receiver is reading the channel, then
\* WaitCompile(id) eventually delivers exactly one status and closes the
\* channel.
C11_Delivers ==
  (<>[](wpc # "none" /\ rcv = "waiting" /\ WaitStatus # progCompile))
    => <>(ch.closed /\ Len(ch.recvd) = 1)

\* The goroutine waited out a compilation, delivered Ready and closed.
C11_Witness ==
  /\ ch.closed
  /\ ch.recvd = <<progReady>>
  /\ rcv = "waiting"
  /\ wpc = "done"

\* ---- C12 ---------------------------------------------------------------
\* C12: WaitCompile can be cancelled: once the caller has stopped receiving,
\* the goroutine is never stuck; until it has terminated it always has a step
\* to take, in particular it is not blocked on the send to the channel.
C12_NotBlockedAfterCancel ==
  (rcv = "gone" /\ wpc \notin {"none", "done"}) =>
    ENABLED (Wait_poll \/ Wait_eval \/ Wait_send \/ Wait_close)

\* ---- C13 ---------------------------------------------------------------
\* A step that is a call of calculateGasAndSize on opcode op.
IsMeterStep(ops) == gret = NoReturn /\ gret' # NoReturn /\ gcall.instr.op \in ops

\* C13: for SSTORE with prior slot value v and new value w, the meter returns
\* SstoreSet when v = 0 and w # 0; SstoreClear when v # 0 and w = 0, and then
\* the refund counter grows by SstoreRefund; SstoreReset otherwise; in the
\* first and the last case the refund counter is unchanged.
C13_SstoreGas ==
  [][(IsMeterStep({OpCode.SSTORE}) /\ Len(gstack) >= 2) =>
       LET v == gstatedb.storage[<<gcall.contract.address, stackAt(gstack, 1)>>]
           w == stackAt(gstack, 2)
       IN /\ gret'.err = NoError
          /\ (v = <<>> /\ w # <<>>) =>
               /\ gret'.gas = NatOf(params.SstoreSetGas64)
               /\ gstatedb'.refund = gstatedb.refund
          /\ (v # <<>> /\ w = <<>>) =>
               /\ gret'.gas = NatOf(params.SstoreClearGas64)
               /\ gstatedb'.refund = gstatedb.refund + params.SstoreRefundGas
          /\ ~(v = <<>> /\ w # <<>>) /\ ~(v # <<>> /\ w = <<>>) =>
               /\ gret'.gas = NatOf(params.SstoreResetGas64)
               /\ gstatedb'.refund = gstatedb.refund]_vars

\* An SSTORE that cleared a slot, on a refund counter that held SstoreRefund.
C13_Witness ==
  /\ gcall.instr.op = OpCode.SSTORE
  /\ gret.err = NoError
  /\ gret.gas = NatOf(params.SstoreClearGas64)
  /\ gstatedb.refund = 2 * params.SstoreRefundGas

\* ---- C14 ---------------------------------------------------------------
\* C14: for CALL, CALLCODE and DELEGATECALL with available gas A, gas c
\* consumed before the forwarding (c <= A) and requested gas r on top of the
\* stack, the forwarded gas is min(r, (A - c) - floor((A - c) / 64)); the top
\* stack slot is replaced by it and the returned gas is c plus it.
C14_ForwardedGas ==
  [][(IsMeterStep({OpCode.CALL, OpCode.CALLCODE, OpCode.DELEGATECALL}) /\ gret'.err = NoError) =>
       LET r == stackAt(gstack, 1)
           A == gcall.contract.gas64
           forwarded == stackAt(gstack', 1)
       IN /\ NatLeq(forwarded, gret'.gas)
          /\ LET c == NatSub(gret'.gas, forwarded)
             IN NatLeq(c, A) =>
                  forwarded = NatMin(r, NatSub(NatSub(A, c),
                                               NatDivSmall(NatSub(A, c), 64)))]_vars

\* ---- C15 ---------------------------------------------------------------
\* The offset and the length of the region a copying opcode touches.
CopyOffset(op, stk) == stackAt(stk, IF op = OpCode.EXTCODECOPY THEN 2 ELSE 1)
CopyLength(op, stk) ==
  stackAt(stk, CASE op = OpCode.SHA3 -> 2 [] op = OpCode.EXTCODECOPY -> 4 [] OTHER -> 3)

\* C15: for SHA3, CALLDATACOPY, CODECOPY and EXTCODECOPY the gas returned is
\* the base gas, plus word_ceil(length) times the per-word price, plus the
\* memory-growth charge of the region; also for EXTCODECOPY.
C15_CopyGas ==
  [][(IsMeterStep({OpCode.SHA3, OpCode.CALLDATACOPY, OpCode.CODECOPY, OpCode.EXTCODECOPY})
        /\ gret'.err = NoError) =>
       LET op == gcall.instr.op
           l == CopyLength(op, gstack)
           price == IF op = OpCode.SHA3 THEN params.KeccakWordGas64 ELSE params.CopyGas64
           memGas == calcQuadMemGas(gcall.memLen,
                                    calcMemSize(CopyOffset(op, gstack), l).size)
       IN gret'.gas = NatAdd(NatAdd(gcall.instr.gas, NatMulSmall(toWordSize(l), price)),
                             memGas)]_vars

\* ---- C16 ---------------------------------------------------------------
\* C16: for every list of L blocks Build returns a tree that passes Validate,
\* and for every index i below L the proof InclusionProof(i) returns is
\* accepted by CheckProof against Root{L, tree.Root()} with index i, all
\* under the hasher the tree was built with.
C16_BuildValidatesAndProves ==
  /\ bout # "panic"
  /\ (verr # NoValidate /\ verr.h = bhasher) => verr.err = NoError
  /\ (prf # NoProof /\ prf.index < Len(bdata)) => ~prf.panic
  /\ (/\ chk # NoCheck
      /\ chk.h = bhasher
      /\ chk.proof = prf.b
      /\ chk.index = prf.index
      /\ chk.count = Len(bdata))
     => chk.ret

\* The proof of the last of three blocks, whose parent has a single child,
\* has been accepted and the tree has passed Validate.
C16_Witness ==
  /\ Len(bdata) = 3
  /\ verr.err = NoError
  /\ prf.index = 2
  /\ ~prf.panic
  /\ chk.ret
  /\ chk.proof = prf.b
  /\ chk.index = 2
  /\ chk.count = 3

\* ---- C17 ---------------------------------------------------------------
\* C17: CheckProof returns false whenever the proof it is given differs from
\* the valid proof for index i (an element changed, added or removed), the
\* index differs from i, or the Root's Count differs from the number of
\* leaves.
C17_RejectsAltered ==
  (/\ chk # NoCheck
   /\ \/ chk.proof # prf.b
      \/ chk.index # prf.index
      \/ chk.count # Len(bdata))
  => ~chk.ret

\* ---- C18 ---------------------------------------------------------------
IsLeafNode(n) == n # nil /\ Child(n, 0) = nil /\ Child(n, 1) = nil

RECURSIVE LeafLabels(_)
LeafLabels(n) ==
  IF n = nil THEN <<>>
  ELSE IF IsLeafNode(n) THEN <<Label(n)>>
  ELSE LeafLabels(Child(n, 0)) \o LeafLabels(Child(n, 1))

RECURSIVE LeafDepths(_, _)
LeafDepths(n, depth) ==
  IF n = nil THEN {}
  ELSE IF IsLeafNode(n) THEN {depth}
  ELSE LeafDepths(Child(n, 0), depth + 1) \cup LeafDepths(Child(n, 1), depth + 1)

RECURSIVE LabelsOk(_, _)
LabelsOk(hf, n) ==
  \/ n = nil
  \/ IsLeafNode(n)
  \/ /\ Child(n, 0) # nil
     /\ Label(n) = Sum(hf, IF Child(n, 1) # nil
                           THEN Label(Child(n, 0)) \o Label(Child(n, 1))
                           ELSE Label(Child(n, 0)))
     /\ LabelsOk(hf, Child(n, 0))
     /\ LabelsOk(hf, Child(n, 1))

\* C18: a tree returned by Build has count equal to the number of blocks, the
\* blocks in order as its leaf labels, every node with two children labelled
\* H(left.label || right.label) and every node with only a left child
\* H(left.label), no right child without a left one, every leaf at depth
\* GetHeight(count), and rootHash = H(root.label || little-endian count),
\* which for the empty tree is H(little-endian 0).
C18_RepInvariants ==
  bout = "built" =>
    /\ bt.count = Len(bdata)
    /\ LeafLabels(bt.root) = bdata
    /\ LabelsOk(bhasher, bt.root)
    /\ LeafDepths(bt.root, 1) \subseteq {GetHeight(bt.count)}
    /\ bt.rootHash = Sum(bhasher, IF bt.root = nil
                                  THEN LittleEndian(0)
                                  ELSE Label(bt.root) \o LittleEndian(bt.count))

\* Build has returned the tree of three blocks: a node with two children, a
\* node with only a left child and the root above them.
C18_Witness ==
  /\ bout = "built"
  /\ Len(bdata) = 3
  /\ bt.count = 3
  /\ Child(Child(bt.root, 1), 1) = nil
  /\ Child(Child(bt.root, 0), 1) # nil

\* ---- C19 ---------------------------------------------------------------
\* The threads inside the decode loop of CompileProgram on Program o.
Decoders(o) == { t \in Threads : tprog[t] = o /\ tpc[t] = "loop" }

\* C19: when several threads call CompileProgram on the same Program, at most
\* one of them runs the decode loop, so that the instruction array never
\* receives instructions from two decoders.
C19_OneDecoder ==
  \A o \in 1..Len(heap) : Cardinality(Decoders(o)) <= 1

\* ---- C20 ---------------------------------------------------------------
\* The code positions covered by the instructions of p and their immediates.
Covered(p) ==
  UNION { p.instructions[i].pc .. p.instructions[i].pc + ImmLen(p.instructions[i]) :
            i \in 1..Len(p.instructions) }

\* C20: whenever the status of a Program reads Ready, its instruction array
\* and pc map cover the whole code and no thread is still in the decode loop
\* writing to them.
C20_ReadyIsFinal ==
  \A o \in 1..Len(heap) :
    heap[o].status = progReady =>
      /\ Decoders(o) = {}
      /\ \A k \in 0..(Len(heap[o].code) - 1) : k \in Covered(heap[o])
      /\ InstrPcs(heap[o]) = DOMAIN heap[o].mapping

\* ---- C21 ---------------------------------------------------------------
\* The memory-growth charge of a CALL or CALLCODE on stack stk.
CallMemGas(memLen, stk) ==
  calcQuadMemGas(memLen,
                 NatMax(calcMemSize(stackAt(stk, 6), stackAt(stk, 7)).size,
                        calcMemSize(stackAt(stk, 4), stackAt(stk, 5)).size))

\* The gas of a CALL or CALLCODE step taken apart: the table's call price,
\* the surcharges named, the memory charge and the gas forwarded.
CallGasIs(newAccount, transfer) ==
  gret'.gas =
    NatAdd(NatAdd(NatAdd(NatAdd(gcall.gasTable.Calls,
                                IF newAccount
                                THEN NatOf(params.CallNewAccountGas64) ELSE <<>>),
                         IF transfer
                         THEN NatOf(params.CallValueTransferGas64) ELSE <<>>),
                  CallMemGas(gcall.memLen, gstack)),
           stackAt(gstack', 1))

CallStep == IsMeterStep({OpCode.CALL, OpCode.CALLCODE}) /\ gret'.err = NoError
Callee == BigToAddress(stackAt(gstack, 2))
CallValue == stackAt(gstack, 3)

\* C21 as stated: the NewAccount surcharge is added only to a CALL with a
\* non-zero value, under the eip158 rule iff the callee is empty, under the
\* older rule iff the callee does not exist; a CALL with zero value and a
\* CALLCODE never incur it; CallValueTransfer is added iff the value is
\* non-zero.
C21_NewAccountOnlyWithValue ==
  [][CallStep =>
       CallGasIs(/\ gcall.instr.op = OpCode.CALL
                 /\ CallValue # <<>>
                 /\ IF gcall.env.eip158
                    THEN dbEmpty(gcall.env.db, Callee)
                    ELSE ~dbExist(gcall.env.db, Callee),
                 CallValue # <<>>)]_vars

\* C21 amended: the NewAccount surcharge is added to a CALL under the eip158
\* rule iff the callee is empty and the value is non-zero, and under the
\* older rule iff the callee does not exist, whatever the value; a CALLCODE
\* never incurs it; CallValueTransfer is added iff the value is non-zero.
C21_NewAccountSurcharge ==
  [][CallStep =>
       CallGasIs(/\ gcall.instr.op = OpCode.CALL
                 /\ IF gcall.env.eip158
                    THEN dbEmpty(gcall.env.db, Callee) /\ CallValue # <<>>
                    ELSE ~dbExist(gcall.env.db, Callee),
                 CallValue # <<>>)]_vars

\* A CALL with zero value to an account that does not exist, under the older
\* rule, has returned the call price plus the NewAccount surcharge plus the
\* gas it forwards (no memory growth).
C21_Witness ==
  /\ gcall.instr.op = OpCode.CALL
  /\ gret.err = NoError
  /\ ~gcall.env.eip158
  /\ gcall.env.db[NatOf(2)] = "absent"
  /\ Len(gstack) = 7
  /\ gstack[5] = <<>>
  /\ gret.gas = NatAdd(NatAdd(gcall.gasTable.Calls,
                              NatOf(params.CallNewAccountGas64)),
                       gstack[7])

\* ---- C22 ---------------------------------------------------------------
Beneficiary == BigToAddress(stackAt(gstack, 1))

\* C22: for SUICIDE under a gas table with CreateBySuicide > 0 the gas is the
\* base gas plus Suicide, plus CreateBySuicide iff, under the eip158 rule,
\* the beneficiary is empty and the contract's balance is non-zero or, under
\* the older rule, the beneficiary does not exist; with CreateBySuicide = 0
\* the gas is the base gas; the refund counter grows by SuicideRefund iff the
\* contract is not yet marked suicided.
C22_SuicideGas ==
  [][(IsMeterStep({SUICIDE}) /\ Len(gstack) >= 1) =>
       /\ gret'.err = NoError
       /\ gret'.gas =
            IF gcall.gasTable.CreateBySuicide # <<>>
            THEN NatAdd(NatAdd(gcall.instr.gas, gcall.gasTable.Suicide),
                        IF IF gcall.env.eip158
                           THEN /\ dbEmpty(gcall.env.db, Beneficiary)
                                /\ gstatedb.balance[gcall.contract.address] # <<>>
                           ELSE ~dbExist(gcall.env.db, Beneficiary)
                        THEN gcall.gasTable.CreateBySuicide
                        ELSE <<>>)
            ELSE gcall.instr.gas
       /\ gstatedb'.refund =
            IF gcall.contract.address \in gstatedb.suicided
            THEN gstatedb.refund
            ELSE gstatedb.refund + params.SuicideRefundGas]_vars

\* A SUICIDE of a contract with a balance to an empty beneficiary under the
\* eip158 rule: base 3 plus Suicide plus CreateBySuicide, and the refund
\* counter has grown from SuicideRefund to twice that.
C22_Witness ==
  /\ gcall.instr.op = SUICIDE
  /\ gret.err = NoError
  /\ gcall.env.eip158
  /\ gcall.env.db[NatOf(2)] = "empty"
  /\ gstatedb.balance[ContractAddr] # <<>>
  /\ gret.gas = NatOf(30003)
  /\ gstatedb.refund = 2 * params.SuicideRefundGas

\* ---- C23 ---------------------------------------------------------------
\* word_ceil(offset + length) * 32 for the region the opcode touches on stack
\* stk, zero for an opcode that touches no memory.
Region(off, l) == calcMemSize(off, l).size

RegionSize(op, stk) ==
  CASE op \in {OpCode.MLOAD, OpCode.MSTORE} -> Region(stackAt(stk, 1), NatOf(32))
    [] op = OpCode.MSTORE8 -> Region(stackAt(stk, 1), NatOf(1))
    [] op = RETURN \/ IsLog(op) -> Region(stackAt(stk, 1), stackAt(stk, 2))
    [] op = OpCode.CREATE -> Region(stackAt(stk, 2), stackAt(stk, 3))
    [] op \in {OpCode.SHA3, OpCode.CALLDATACOPY, OpCode.CODECOPY, OpCode.EXTCODECOPY} ->
         Region(CopyOffset(op, stk), CopyLength(op, stk))
    [] op \in {OpCode.CALL, OpCode.CALLCODE} ->
         NatMax(Region(stackAt(stk, 6), stackAt(stk, 7)),
                Region(stackAt(stk, 4), stackAt(stk, 5)))
    [] op = OpCode.DELEGATECALL ->
         NatMax(Region(stackAt(stk, 5), stackAt(stk, 6)),
                Region(stackAt(stk, 3), stackAt(stk, 4)))
    [] OTHER -> <<>>

MeterReturns == gret = NoReturn /\ gret' # NoReturn /\ gret'.err = NoError

C28_ErrorKeepsStack ==
  [][(gret = NoReturn /\ gret' # NoReturn /\ gret'.err # NoError) => gstack' = gstack]_vars

\* The meter has returned out of gas on a call, and the slot of the requested
\* gas no longer holds the request.
C28_Overwritten ==
  /\ gret # NoReturn
  /\ gret.err = OutOfGasError
  /\ gcall.instr.op \in {OpCode.CALL, OpCode.CALLCODE, OpCode.DELEGATECALL}
  /\ gcall.contract.gas64 = NatMul(NatOf(1073741824), NatOf(536870912))
  /\ gstack[Len(gstack)] # maxUint64

\* C29: whenever calculateGasAndSize returns an error, the refund counter of
\* the state is as it was before the call; the counter changes only on a
\* successful return of SSTORE or SUICIDE, and then by one refund:
\* SstoreRefundGas for SSTORE, SuicideRefundGas for SUICIDE.
C29_ErrorKeepsRefund ==
  [][(gret = NoReturn /\ gret' # NoReturn) =>
       /\ gret'.err # NoError => gstatedb'.refund = gstatedb.refund
       /\ gstatedb'.refund # gstatedb.refund =>
            \/ /\ gcall.instr.op = OpCode.SSTORE
               /\ gstatedb'.refund = gstatedb.refund + params.SstoreRefundGas
            \/ /\ gcall.instr.op = SUICIDE
               /\ gstatedb'.refund = gstatedb.refund + params.SuicideRefundGas]_vars

\* SSTORE on a stack of one item has returned stack underflow, the refund
\* counter holding the refund of an earlier call.
C29_Witness ==
  /\ gret # NoReturn
  /\ gret.err = StackUnderflow
  /\ gcall.instr.op = OpCode.SSTORE
  /\ Len(gstack) = 1
  /\ gstatedb.refund = params.SstoreRefundGas

\* The immediates of the decoder, SWAP_n recording op - SWAP1 + swapBase.
ImmediateIs(ins, swapBase) ==
  /\ IsDup(ins.op) => ins.data = ins.op - DUP1 + 1
  /\ IsSwap(ins.op) => ins.data = ins.op - SWAP1 + swapBase
  /\ IsLog(ins.op) => ins.data = ins.op - LOG0
  /\ ins.op = PC => ins.data = ins.pc

\* C25: the immediate of a decoded DUP_n, SWAP_n and LOG_n is n, and the
\* immediate of a PC instruction is its own program counter.
C25_ImmediateIsIndex ==
  \A o \in 1..Len(heap) :
    CompiledOnce(o) =>
      \A i \in 1..Len(heap[o].instructions) :
        ImmediateIs(heap[o].instructions[i], 1)

\* C25 amended: the immediate of DUP_n and of LOG_n is n, that of SWAP_n is
\* n + 1 (the number of stack items the swap reaches), and that of a PC
\* instruction is its own program counter.
C25_SwapImmediateIsDepth ==
  \A o \in 1..Len(heap) :
    CompiledOnce(o) =>
      \A i \in 1..Len(heap[o].instructions) :
        ImmediateIs(heap[o].instructions[i], 2)

\* The code SWAP1, LOG2, PC compiled: immediates 2, 2 and the pc 2.
C25_Witness ==
  \E o \in 1..Len(heap) :
    /\ CompiledOnce(o)
    /\ heap[o].code = <<SWAP1, LOG0 + 2, PC>>
    /\ Len(heap[o].instructions) = 3
    /\ heap[o].instructions[1].data = 2
    /\ heap[o].instructions[2].data = 2
    /\ heap[o].instructions[3].data = 2

\* A step of GetProgramStatus: the store call recorded is a status query and
\* no thread moved.
IsStatusStep == last'.op = "GetProgramStatus" /\ heap' = heap /\ tpc' = tpc

\* The keys of the cache from the most to the least recently used.
lruOrder(c) == [i \in 1..Len(c.items) |-> c.items[i].key]

\* The sequence s without its elements equal to e.
Without(s, e) == SelectSeq(s, LAMBDA x : x # e)

\* C27: GetProgramStatus(id) on a present id moves the entry to the most
\* recently used place and leaves the order of the others; on an absent id
\* it leaves the store alone and returns Unknown; so an insertion at
\* capacity (two or more) that follows a status query of a present id does
\* not evict that id.
C27_StatusPromotes ==
  [][/\ IsStatusStep =>
          IF last'.id \in lruKeys(programs)
          THEN /\ lruOrder(programs') =
                    <<last'.id>> \o Without(lruOrder(programs), last'.id)
               /\ last'.ret = heap[GetProgram(programs, last'.id).ret].status
          ELSE programs' = programs /\ last'.ret = progUnknown
     /\ (/\ IsNewProgramStep
         /\ last.op = "GetProgramStatus"
         /\ last.id \in lruKeys(programs)
         /\ programs.size >= 2) =>
          /\ last.id \notin evicted'
          /\ (/\ programs.size = 2
              /\ Len(programs.items) = 2
              /\ last'.id \notin lruKeys(programs)) =>
               evicted' = lruKeys(programs) \ {last.id}]_vars

\* Capacity 2: P1 and P2 were inserted in this order and GetProgramStatus(P1)
\* has just returned; P1 is the most recently used, P2 is next to be evicted.
C27_Witness ==
  /\ programs.size = 2
  /\ Len(heap) = 2
  /\ heap[1].Id # heap[2].Id
  /\ last.op = "GetProgramStatus"
  /\ last.id = heap[1].Id
  /\ lruOrder(programs) = <<heap[1].Id, heap[2].Id>>

\* The number of opcode positions of code from pc on: a PUSH_n skips its n
\* immediate bytes.
RECURSIVE OpcodePositions(_, _)
OpcodePositions(code, pc) ==
  IF pc >= Len(code) THEN 0
  ELSE 1 + OpcodePositions(code, pc + 1 + ImmLen([op |-> code[pc + 1]]))

\* No CompileProgram call on Program o is under way.
NotCompiling(o) == \A t \in Threads : tprog[t] = o => tpc[t] = "idle"

\* C26: a Ready Program on which no CompileProgram call is under way, however
\* many calls have returned, has one instruction per opcode position of its
\* code and a pc map that sends the pc of the instruction at index i to i:
\* a further call on a Ready Program changes nothing.
C26_CompileIdempotent ==
  \A o \in 1..Len(heap) :
    (heap[o].status = progReady /\ NotCompiling(o)) =>
      /\ Len(heap[o].instructions) = OpcodePositions(heap[o].code, 0)
      /\ \A i \in 1..Len(heap[o].instructions) :
           heap[o].mapping[heap[o].instructions[i].pc] = i - 1

\* ---- C24 ---------------------------------------------------------------
\* The hasher written to hashFunc last: the package's default before any
\* call.
LastWritten == IF rwriter = 0 THEN Keccak256 ELSE rc[rwriter].h

\* C24: BuildBMT and CheckProof each overwrite hashFunc with their own
\* hasher before they hash, and every hash of a call is computed with the
\* hasher written last by either call, not with the call's own: a call
\* whose write is followed by the other call's write hashes with the other
\* call's hasher.
C24_HashesWithLastWritten ==
  [][\A c \in Callers :
       /\ (rc[c].pc = "set" /\ rc'[c].pc # "set") => hashFunc' = rc[c].h
       /\ Len(rc'[c].used) = Len(rc[c].used) + 1 =>
            /\ rc[c].pc \notin {"idle", "set"}
            /\ rc'[c].used[Len(rc'[c].used)] = LastWritten
            /\ rwriter # c => rc'[c].used[Len(rc'[c].used)] = rc[rwriter].h]_vars

\* BuildBMT with Keccak256 has returned 0 beside a CheckProof with Sha256:
\* the label of its root and its root hash are SHA-256 digests.
C24_Witness ==
  \E c \in Callers :
    /\ rc[c].pc = "done"
    /\ rc[c].kind = "BuildBMT"
    /\ rc[c].h = Keccak256
    /\ rc[c].ret = "0"
    /\ \E d \in Callers : rc[d].kind = "CheckProof" /\ rc[d].h = Sha256
    /\ rc[c].label = makeHash(Sha256, RaceLeaf(1), RaceLeaf(2))
    /\ rc[c].root = RaceRoot(Sha256).Base
    /\ rc[c].root # RaceRoot(Keccak256).Base

\* ---- C30 ---------------------------------------------------------------
\* ceil(log2(count)) of a count from 1 to 2^64 - 1.
CeilLog2(count) == CHOOSE k \in 0..64 : /\ NatLeq(count, Pow2Nat(k))
                                       /\ \A j \in 0..(k - 1) : ~NatLeq(count, Pow2Nat(j))

\* C30: GetHeight(count) returns 0 for count = 0 and ceil(log2(count)) + 1
\* otherwise, for every uint64 count; its loop ends with height equal to
\* ceil(log2(count)), so that height never exceeds it.
C30_GetHeight ==
  /\ gh.pc = "done" =>
       gh.ret = IF gh.count = <<>> THEN 0 ELSE CeilLog2(gh.count) + 1
  /\ gh.pc = "loop" => gh.height <= CeilLog2(gh.count)

====
